---- MODULE Spec2Model ----
(***************************************************************************)
(* Model of the zk-dpp-royalty-protocol core: the commitments crate        *)
(* (hashing, Merkle tree) and the edge agent's Tauri commands over its     *)
(* SQLite store (claims, commitments, keypairs) and the Noir prover CLI.   *)
(*                                                                         *)
(* Byte strings are sequences of integers.  BLAKE3 is modelled as a        *)
(* collision-free function: the digest of a byte string is the string      *)
(* itself between two bracket tokens, so two digests are equal exactly     *)
(* when their inputs are, and the concatenation of 32-byte values parses   *)
(* in one way only.  A 32-byte value that is not known to be a digest is   *)
(* one non-negative token.                                                 *)
(***************************************************************************)
EXTENDS Integers, Sequences, FiniteSets, TLC

VARIABLES
    claims,        \* claims table: claim id -> row, or NoClaim
    claims_made,   \* number of claim ids handed out so far (ids are fresh UUIDs)
    commitments,   \* commitments table: sequence of rows, the id is the position
    keypairs,      \* keypairs table: sequence of rows, the id is the position
    now,           \* Utc::now()
    resp,          \* the last command, its input and its CommandResponse
    revoke_ok,     \* history: ids for which revoke_commitment answered Ok(true)
    mk,            \* the Merkle engine exercised on its own (MerkleSpec)
    zk,            \* the prover calls in flight and the circuit directories (ProverSpec)
    fn             \* one function applied to one input (FnSpec)

vars == <<claims, claims_made, commitments, keypairs, now, resp, revoke_ok, mk,
          zk, fn>>

\* the tables, the clock and the last response
app == <<claims, claims_made, commitments, keypairs, now, resp, revoke_ok>>

--------------------------------------------------------------------------
(* Bounds of the model *)

MaxLeaves == 5        \* longest leaf list given to MerkleTree::build in MerkleSpec
NumAtoms == 2         \* distinct raw 32-byte leaf values in MerkleSpec
MaxClaims == 1        \* claim ids handed out in one run
MaxCommitments == 1   \* commitments stored in one run
MaxIds == 2           \* longest claim_ids list given to create_commitment
MaxKeys == 2          \* keypairs generated in one run
MaxTime == 1          \* last instant of the clock
U32Bits == 16         \* modelled width of u32
MaxCalls == 3         \* generate_proof requests issued concurrently in ProverSpec
MaxTokens == 4        \* longest predicate id, in words and separators, parsed in FnSpec
MaxPathLen == 9       \* longest Merkle path given to the witness builders in FnSpec

--------------------------------------------------------------------------
(* crates/commitments: hashing *)

HOpen == 0 - 1
HClose == 0 - 2

hash_bytes(data) == <<HOpen>> \o data \o <<HClose>>

--------------------------------------------------------------------------
(* crates/commitments/src/merkle.rs *)

MAX_DEPTH == 32

\* a parent that covers its left child only
hash_pair_left(left, right) == hash_bytes(left \o left)

hash_pair(left, right) == hash_bytes(left \o right)

\* (n as f64).log2().ceil(): the least d with 2^d >= n
RECURSIVE CeilLog2From(_, _)
CeilLog2From(n, d) == IF 2^d >= n THEN d ELSE CeilLog2From(n, d + 1)

CeilLog2(n) == CeilLog2From(n, 0)

\* one pass of `for chunk in current_level.chunks(2)`: chunk j holds the
\* nodes 2j-1 and 2j, the last chunk of an odd level the node 2j-1 only
next_level(current_level) ==
    <<>> \o
    [j \in 1..((Len(current_level) + 1) \div 2) |->
        IF 2 * j <= Len(current_level)
        THEN hash_pair(current_level[2 * j - 1], current_level[2 * j])
        ELSE hash_pair(current_level[2 * j - 1], current_level[2 * j - 1])]

\* `while nodes.last().unwrap().len() > 1`
RECURSIVE build_levels(_)
build_levels(nodes) ==
    IF Len(nodes[Len(nodes)]) > 1
    THEN build_levels(Append(nodes, next_level(nodes[Len(nodes)])))
    ELSE nodes

\* MerkleTree::build: Err(EmptyClaims), Err(DepthExceeded) or the tree
build(claim_hashes) ==
    IF Len(claim_hashes) = 0
    THEN [ok |-> FALSE, err |-> "EmptyClaims", nodes |-> <<>>, leaves |-> <<>>]
    ELSE IF CeilLog2(Len(claim_hashes)) > MAX_DEPTH
    THEN [ok |-> FALSE, err |-> "DepthExceeded", nodes |-> <<>>, leaves |-> <<>>]
    ELSE [ok |-> TRUE, err |-> "",
          nodes |-> build_levels(<<claim_hashes>>), leaves |-> claim_hashes]

root(tree) == tree.nodes[Len(tree.nodes)][1]

leaf_count(tree) == Len(tree.leaves)

\* a sibling choice that never looks to the right
sibling_index_self(level_nodes, current_index) ==
    IF current_index % 2 = 1 THEN current_index - 1 ELSE current_index

sibling_index(level_nodes, current_index) ==
    IF current_index % 2 = 1
    THEN current_index - 1
    ELSE IF current_index + 1 < Len(level_nodes)
         THEN current_index + 1
         ELSE current_index

\* a proof that also takes a sibling at the level of the root
prove_with_root(tree, index) ==
    IF ~(index < Len(tree.leaves))
    THEN [panic |-> TRUE, leaf |-> <<>>, path |-> <<>>, indices |-> <<>>]
    ELSE [panic |-> FALSE,
          leaf |-> tree.leaves[index + 1],
          path |-> [level \in 1..Len(tree.nodes) |->
                      tree.nodes[level][
                          sibling_index(tree.nodes[level],
                                        index \div (2^(level - 1))) + 1]],
          indices |-> [level \in 1..Len(tree.nodes) |->
                         IF (index \div (2^(level - 1))) % 2 = 1 THEN 1 ELSE 0]]

\* MerkleTree::prove; index is 0-based; the assert! aborts the thread
prove(tree, index) ==
    IF ~(index < Len(tree.leaves))
    THEN [panic |-> TRUE, leaf |-> <<>>, path |-> <<>>, indices |-> <<>>]
    ELSE [panic |-> FALSE,
          leaf |-> tree.leaves[index + 1],
          path |-> [level \in 1..(Len(tree.nodes) - 1) |->
                      tree.nodes[level][
                          sibling_index(tree.nodes[level],
                                        index \div (2^(level - 1))) + 1]],
          indices |-> [level \in 1..(Len(tree.nodes) - 1) |->
                         IF (index \div (2^(level - 1))) % 2 = 1 THEN 1 ELSE 0]]

\* a fold that takes every node to be a left child
RECURSIVE fold_path_left(_, _, _)
fold_path_left(current, path, indices) ==
    IF Len(path) = 0 THEN current
    ELSE fold_path_left(hash_bytes(current \o path[1]), Tail(path), Tail(indices))

\* the loop of verify_merkle_proof over path.iter().zip(indices.iter())
RECURSIVE fold_path(_, _, _)
fold_path(current, path, indices) ==
    IF Len(path) = 0 THEN current
    ELSE fold_path(IF indices[1] = 0
                   THEN hash_pair(current, path[1])
                   ELSE hash_pair(path[1], current),
                   Tail(path), Tail(indices))

verify_merkle_proof(leaf, path, indices, expected_root) ==
    IF Len(path) # Len(indices) THEN FALSE
    ELSE fold_path(leaf, path, indices) = expected_root

\* MerkleTree::verify
verify(tree, proof) ==
    verify_merkle_proof(proof.leaf, proof.path, proof.indices, root(tree))

--------------------------------------------------------------------------
(* JSON values (serde_json::Value) of a claim.  A number is n + frac/1000, *)
(* `float` when serde holds it as f64; a string is its characters, the     *)
(* digits 0..9 standing for themselves; an object carries the keys the     *)
(* encoders read: a validity window (-1: key absent) and a substances list *)

JNumber(n) ==
    [kind |-> "number", float |-> FALSE, n |-> n, frac |-> 0, s |-> <<>>,
     vf |-> -1, vu |-> -1, has_subs |-> FALSE, subs |-> <<>>]

JString(chars) ==
    [kind |-> "string", float |-> FALSE, n |-> 0, frac |-> 0, s |-> chars,
     vf |-> -1, vu |-> -1, has_subs |-> FALSE, subs |-> <<>>]

JWindow(from, until) ==
    [kind |-> "object", float |-> FALSE, n |-> 0, frac |-> 0, s |-> <<>>,
     vf |-> from, vu |-> until, has_subs |-> FALSE, subs |-> <<>>]

JSubstances(list) ==
    [kind |-> "object", float |-> FALSE, n |-> 0, frac |-> 0, s |-> <<>>,
     vf |-> -1, vu |-> -1, has_subs |-> TRUE, subs |-> list]

U32_MAX == 2^U32Bits - 1

\* utf8 bytes of the strings the encoders hash, one token each
utf8(str) ==
    CASE str = "recycled_content" -> <<101>>
      [] str = "carbon_footprint" -> <<102>>
      [] str = "certification" -> <<103>>
      [] str = "substance_content" -> <<104>>
      [] str = "battery_chemistry" -> <<105>>
      [] str = "water_usage" -> <<106>>
      [] str = "percent" -> <<111>>
      [] str = "kg" -> <<112>>
      [] str = "liters" -> <<113>>
      [] str = "" -> <<>>
      [] OTHER -> <<199>>

\* the result of a fallible encoder: Ok(v) or Err(err)
Ok(v) == [ok |-> TRUE, v |-> v, err |-> ""]
Err(e) == [ok |-> FALSE, v |-> 0, err |-> e]

\* str::parse::<u32>: an optional '+' (character 13), then digits only
RECURSIVE digits_value(_, _)
digits_value(chars, acc) ==
    IF Len(chars) = 0 THEN acc
    ELSE IF acc > U32_MAX THEN acc
    ELSE digits_value(Tail(chars), 10 * acc + chars[1])

parse_u32_str(chars) ==
    LET body == IF Len(chars) > 0 /\ chars[1] = 13 THEN Tail(chars) ELSE chars
    IN  IF Len(body) = 0 \/ \E i \in 1..Len(body) : body[i] \notin 0..9
        THEN Err("Invalid numeric string")
        ELSE IF digits_value(body, 0) > U32_MAX
             THEN Err("Invalid numeric string")
             ELSE Ok(digits_value(body, 0))

\* commands/mod.rs parse_u32_value
parse_u32_value(value) ==
    IF value.kind = "number" /\ ~value.float /\ value.n >= 0
    THEN IF value.n <= U32_MAX THEN Ok(value.n) ELSE Err("Value out of range")
    ELSE IF value.kind = "number" /\ value.frac = 0
    THEN \* `n as u64` saturates: a negative number becomes 0
         LET as_u64 == IF value.n < 0 THEN 0 ELSE value.n
         IN  IF as_u64 <= U32_MAX THEN Ok(as_u64) ELSE Err("Value out of range")
    ELSE IF value.kind = "string"
    THEN parse_u32_str(value.s)
    ELSE Err("Claim value is not a number")

CARBON_FOOTPRINT_SCALE == 100

\* commands/mod.rs parse_scaled_u32_value; the product of the string branch
\* is a u32 multiplication
parse_scaled_u32_value(value, scale) ==
    IF value.kind = "number"
    THEN LET scaled1000 == (value.n * 1000 + value.frac) * scale
         IN  IF scaled1000 >= 0
             THEN IF scaled1000 % 1000 = 0
                  THEN IF scaled1000 \div 1000 <= U32_MAX
                       THEN Ok(scaled1000 \div 1000)
                       ELSE Err("Value out of range")
                  ELSE Err("Value has too many decimals")
             ELSE Err("Value has too many decimals")
    ELSE LET parsed == parse_u32_value(value)
         IN  IF parsed.ok THEN Ok((parsed.v * scale) % (U32_MAX + 1)) ELSE parsed

\* commands/mod.rs extract_cert_window: Ok(<<valid_from, valid_until>>)
extract_cert_window(value) ==
    IF value.kind # "object" THEN Err("Certificate claim must be an object")
    ELSE IF value.vf < 0 THEN Err("Missing valid_from")
    ELSE IF value.vu < 0 THEN Err("Missing valid_until")
    ELSE [ok |-> TRUE, v |-> 0, err |-> "", from |-> value.vf, until |-> value.vu]

hash_claim_type(claim_type) == hash_bytes(utf8(claim_type))

hash_unit(unit) == hash_bytes(utf8(unit))

\* 72 bytes: claim_type_hash(32) ++ value.to_be_bytes()(8) ++ unit_hash(32)
hash_claim_value(claim_type_hash, value, unit_hash) ==
    hash_bytes(claim_type_hash \o <<value>> \o unit_hash)

hash_claim_bytes(claim_type_hash, value_hash) ==
    hash_bytes(claim_type_hash \o value_hash)

hash_cert_window(claim_type_hash, valid_from, valid_until) ==
    hash_bytes(claim_type_hash \o <<valid_from>> \o <<valid_until>>)

DOMAIN_SUBSTANCE_PRODUCT == <<83, 85, 66, 80>>
DOMAIN_SUBSTANCE_FORBIDDEN == <<83, 85, 66, 70>>

\* a substance name is one token; none of the modelled names is 64 hex digits
substance_id_from_str(name) == hash_bytes(<<name>>)

RECURSIVE fold_substances(_, _)
fold_substances(current_hash, substances) ==
    IF Len(substances) = 0 THEN current_hash
    ELSE fold_substances(hash_bytes(current_hash \o substances[1]),
                         Tail(substances))

hash_substance_list(domain, claim_type_hash, substances, count) ==
    fold_substances(hash_bytes(domain \o claim_type_hash),
                    SubSeq(substances, 1,
                           IF count < Len(substances) THEN count
                           ELSE Len(substances)))

\* serde_json::to_string of a canonicalized value, as bytes
json_bytes(value) ==
    <<IF value.kind = "number" THEN 1 ELSE IF value.kind = "string" THEN 2 ELSE 3,
      IF value.float THEN 1 ELSE 0, value.n, value.frac, Len(value.s)>>
    \o value.s
    \o <<value.vf, value.vu, IF value.has_subs THEN 1 ELSE 0, Len(value.subs)>>
    \o value.subs

\* commitments::hash_claim over the whole Claim row (the fallback arm): of
\* the row's fields, those a command can change after the claim is stored
hash_claim(id, claim) ==
    hash_bytes(<<id>> \o utf8(claim.claim_type) \o json_bytes(claim.value)
               \o utf8(claim.unit) \o <<IF claim.verified THEN 1 ELSE 0>>
               \o <<claim.updated_at>>)

\* commands/mod.rs compute_claim_hash; the claim is the row `claim` of id `id`
compute_claim_hash(id, claim) ==
    CASE claim.claim_type = "recycled_content" ->
           LET actual_value == parse_u32_value(claim.value)
           IN  IF ~actual_value.ok THEN actual_value
               ELSE Ok(hash_claim_value(hash_claim_type(claim.claim_type),
                                        actual_value.v, hash_unit(claim.unit)))
      [] claim.claim_type = "carbon_footprint" ->
           LET actual_value ==
                   parse_scaled_u32_value(claim.value, CARBON_FOOTPRINT_SCALE)
           IN  IF ~actual_value.ok THEN actual_value
               ELSE Ok(hash_claim_value(hash_claim_type(claim.claim_type),
                                        actual_value.v, hash_unit(claim.unit)))
      [] claim.claim_type = "certification" ->
           LET window == extract_cert_window(claim.value)
           IN  IF ~window.ok THEN Err(window.err)
               ELSE Ok(hash_cert_window(hash_claim_type(claim.claim_type),
                                        window.from, window.until))
      [] claim.claim_type = "substance_content" ->
           IF claim.value.kind # "object" THEN Err("Substance claim must be object")
           ELSE IF ~claim.value.has_subs THEN Err("Missing substances list")
           ELSE LET ids == [i \in 1..Len(claim.value.subs) |->
                               substance_id_from_str(claim.value.subs[i])]
                IN  Ok(hash_substance_list(DOMAIN_SUBSTANCE_PRODUCT,
                                           hash_claim_type(claim.claim_type),
                                           ids, Len(ids)))
      [] claim.claim_type \in {"battery_chemistry", "cobalt_origin_country"} ->
           IF claim.value.kind # "string" THEN Err("Claim value must be string")
           ELSE Ok(hash_claim_bytes(hash_claim_type(claim.claim_type),
                                    hash_bytes(claim.value.s)))
      [] OTHER -> Ok(hash_claim(id, claim))


--------------------------------------------------------------------------
(* commitments::to_hex / from_hex: a hex string is the bytes it spells and *)
(* the case of its digits; hex::encode writes lower case, hex::decode      *)
(* reads either                                                            *)

to_hex(bytes) == [hex |-> bytes, lower |-> TRUE]

from_hex(str) == str.hex

hex_to_bytes32(value) == from_hex(value)

--------------------------------------------------------------------------
(* crates/crypto: Ed25519.  A signature names the key that made it and the *)
(* message it covers; keys are numbered in the order they are generated    *)

sign(key, message) == [signer |-> key, message |-> message]

\* a signature over the hex text of the message, between quotes
sign_hex_of_text(key, message) == to_hex(sign(key, <<34>> \o message \o <<34>>))

sign_hex(key, message) == to_hex(sign(key, message))

\* PublicKey::verify_hex on a well-formed key and signature: Ok(true) exactly
\* when the signature is the one the key's secret half makes of the message
verify_hex(public_key, message, signature_hex) ==
    from_hex(signature_hex) = sign(public_key, message)

--------------------------------------------------------------------------
(* commands/mod.rs parse_predicate_id.  A predicate id is its sequence of  *)
(* words and separators "_" and "@"                                        *)

\* position of the first "@", 0 if none (str::split_once)
first_at(canonical) ==
    IF \E i \in 1..Len(canonical) : canonical[i] = "@"
    THEN CHOOSE i \in 1..Len(canonical) :
             /\ canonical[i] = "@"
             /\ \A j \in 1..(i - 1) : canonical[j] # "@"
    ELSE 0

\* position of the last "_", 0 if none (str::rfind)
last_underscore(canonical) ==
    IF \E i \in 1..Len(canonical) : canonical[i] = "_"
    THEN CHOOSE i \in 1..Len(canonical) :
             /\ canonical[i] = "_"
             /\ \A j \in (i + 1)..Len(canonical) : canonical[j] # "_"
    ELSE 0

parse_predicate_id(canonical) ==
    IF first_at(canonical) # 0
    THEN [ok |-> TRUE,
          name |-> SubSeq(canonical, 1, first_at(canonical) - 1),
          version |-> SubSeq(canonical, first_at(canonical) + 1, Len(canonical))]
    ELSE IF /\ last_underscore(canonical) # 0
            /\ last_underscore(canonical) > 1
            /\ last_underscore(canonical) < Len(canonical)
    THEN [ok |-> TRUE,
          name |-> SubSeq(canonical, 1, last_underscore(canonical) - 1),
          version |-> SubSeq(canonical, last_underscore(canonical) + 1,
                             Len(canonical))]
    ELSE [ok |-> FALSE, name |-> <<>>, version |-> <<>>]

RECYCLED_CONTENT_GTE == <<"RECYCLED", "_", "CONTENT", "_", "GTE">>
CARBON_FOOTPRINT_LTE == <<"CARBON", "_", "FOOTPRINT", "_", "LTE">>
CERT_VALID == <<"CERT", "_", "VALID">>
SUBSTANCE_NOT_IN_LIST == <<"SUBSTANCE", "_", "NOT", "_", "IN", "_", "LIST">>

--------------------------------------------------------------------------
(* storage/mod.rs: the tables *)

NoTime == [some |-> FALSE, t |-> 0]
SomeTime(t) == [some |-> TRUE, t |-> t]

\* Database::get_claim
get_claim(id) ==
    IF id \in DOMAIN claims
    THEN [found |-> TRUE, row |-> claims[id]]
    ELSE [found |-> FALSE,
          row |-> [claim_type |-> "", value |-> JNumber(0), unit |-> "",
                   verified |-> FALSE, updated_at |-> 0]]

\* Database::update_claim: the table after UPDATE ... updated_at = now
\* WHERE id = ?1
update_claim_rows(id, claim) ==
    IF id \in DOMAIN claims
    THEN [claims EXCEPT ![id] = [claim EXCEPT !.updated_at = now]]
    ELSE claims

\* Database::delete_claim: the table after DELETE ... WHERE id = ?1
delete_claim_rows(id) == [i \in DOMAIN claims \ {id} |-> claims[i]]

\* Database::get_commitment
commitment_found(id) == id \in 1..Len(commitments)

\* an UPDATE that flips the flag instead of setting it
revoke_commitment_rows_toggle(id) ==
    IF commitment_found(id)
    THEN [commitments EXCEPT ![id].revoked = ~commitments[id].revoked]
    ELSE commitments

\* Database::revoke_commitment: the table after UPDATE ... WHERE id = ?1
revoke_commitment_rows(id) ==
    IF commitment_found(id)
    THEN [commitments EXCEPT ![id].revoked = TRUE]
    ELSE commitments

\* Database::get_active_keypair: ... WHERE is_active = 1 LIMIT 1 (0 if none)
get_active_keypair ==
    IF \E k \in 1..Len(keypairs) : keypairs[k].is_active
    THEN CHOOSE k \in 1..Len(keypairs) : keypairs[k].is_active
    ELSE 0

\* an insertion that leaves the other keypairs as they are
insert_keypair_keep(keypair) == Append(keypairs, keypair)

\* Database::insert_keypair
insert_keypair(keypair) ==
    Append(IF keypair.is_active
           THEN [k \in 1..Len(keypairs) |-> [keypairs[k] EXCEPT !.is_active = FALSE]]
           ELSE keypairs,
           keypair)


--------------------------------------------------------------------------
(* commands/mod.rs: requests and responses *)

None == 0 - 1

NoReq ==
    [commitment_id |-> 0, predicate_id |-> <<>>, claim_index |-> 0,
     threshold |-> None, forbidden |-> <<>>, has_forbidden |-> FALSE]

NoWitness ==
    [claim_hash |-> <<>>, merkle_path |-> <<>>, merkle_indices |-> <<>>,
     commitment_root |-> <<>>]

NoPackage ==
    [present |-> FALSE, name |-> <<>>, version |-> <<>>, proof |-> "",
     threshold |-> None, commitment_root |-> to_hex(<<>>)]

\* a command's answer: CommandResponse (success, data, error) or, when the
\* command returned Err(String), `rejected`; with what the command did on
\* the way: calls of compute_claim_hash, the index given to
\* MerkleTree::prove, the prover function called and the witness it got
Response(cmd) ==
    [cmd |-> cmd, success |-> TRUE, rejected |-> FALSE, error |-> "",
     flag |-> FALSE, id |-> 0, req |-> NoReq, hashed |-> 0, proved |-> None,
     prover |-> "", witness |-> NoWitness, package |-> NoPackage]

ErrResponse(r, error) == [r EXCEPT !.success = FALSE, !.error = error]

Rejected(r, error) ==
    [r EXCEPT !.success = FALSE, !.rejected = TRUE, !.error = error]

\* the loop `for claim_id in claim_ids { get_claim; compute_claim_hash; push }`
\* of create_commitment and generate_proof: the hashes, or the first failure
RECURSIVE hash_claims(_, _, _)
hash_claims(claim_ids, claim_hashes, calls) ==
    IF Len(claim_ids) = 0
    THEN [ok |-> TRUE, missing |-> FALSE, err |-> "", hashes |-> claim_hashes,
          calls |-> calls]
    ELSE IF ~get_claim(claim_ids[1]).found
    THEN [ok |-> FALSE, missing |-> TRUE, err |-> "", hashes |-> claim_hashes,
          calls |-> calls]
    ELSE LET hash == compute_claim_hash(claim_ids[1], get_claim(claim_ids[1]).row)
         IN  IF ~hash.ok
             THEN [ok |-> FALSE, missing |-> FALSE, err |-> hash.err,
                   hashes |-> claim_hashes, calls |-> calls + 1]
             ELSE hash_claims(Tail(claim_ids), Append(claim_hashes, hash.v),
                              calls + 1)

\* zk/mod.rs prove_*: the external toolchain answers `tool`
prove_external(tool, r, prover, witness) ==
    IF tool = "ok"
    THEN [r EXCEPT !.prover = prover, !.witness = witness]
    ELSE Rejected([r EXCEPT !.prover = prover, !.witness = witness],
                  "Proof generation failed")

\* generate_proof from the witness assembly on (the arms' common tail)
prove_and_package(r, input, commitment, predicate_id, proof, prover, config, tool) ==
    IF config # "ok" THEN Rejected(r, "Noir CLI config error")
    ELSE LET witness == [claim_hash |-> proof.leaf,
                         merkle_path |-> proof.path,
                         merkle_indices |-> proof.indices,
                         commitment_root |-> hex_to_bytes32(commitment.root)]
             called == prove_external(tool, r, prover, witness)
         IN  IF called.rejected THEN called
             ELSE [called EXCEPT !.package =
                      [present |-> TRUE, name |-> predicate_id.name,
                       version |-> predicate_id.version, proof |-> "proof",
                       threshold |-> input.threshold,
                       commitment_root |-> commitment.root]]

\* generate_proof: the match on (predicate_id.name, predicate_id.version)
dispatch(r, input, commitment, claim, predicate_id, proof, config, tool) ==
    CASE predicate_id.name = RECYCLED_CONTENT_GTE /\ predicate_id.version = <<"V1">> ->
           IF input.threshold = None
           THEN Rejected(r, "Threshold required for RECYCLED_CONTENT_GTE_V1")
           ELSE IF ~parse_u32_value(claim.value).ok
           THEN Rejected(r, parse_u32_value(claim.value).err)
           ELSE IF claim.claim_type # "recycled_content"
           THEN ErrResponse(r, "Claim type mismatch for RECYCLED_CONTENT_GTE_V1")
           ELSE prove_and_package(r, input, commitment, predicate_id, proof,
                                  "prove_recycled_content_gte", config, tool)
      [] predicate_id.name = CARBON_FOOTPRINT_LTE /\ predicate_id.version = <<"V1">> ->
           IF input.threshold = None
           THEN Rejected(r, "Threshold required for CARBON_FOOTPRINT_LTE_V1")
           ELSE IF ~parse_scaled_u32_value(claim.value, CARBON_FOOTPRINT_SCALE).ok
           THEN Rejected(r, parse_scaled_u32_value(claim.value,
                                                   CARBON_FOOTPRINT_SCALE).err)
           ELSE IF claim.claim_type # "carbon_footprint"
           THEN ErrResponse(r, "Claim type mismatch for CARBON_FOOTPRINT_LTE_V1")
           ELSE prove_and_package(r, input, commitment, predicate_id, proof,
                                  "prove_carbon_footprint_lte", config, tool)
      [] predicate_id.name = CERT_VALID /\ predicate_id.version = <<"V1">> ->
           IF claim.claim_type # "certification"
           THEN ErrResponse(r, "Claim type mismatch for CERT_VALID_V1")
           ELSE IF ~extract_cert_window(claim.value).ok
           THEN Rejected(r, extract_cert_window(claim.value).err)
           ELSE prove_and_package(r, input, commitment, predicate_id, proof,
                                  "prove_cert_valid", config, tool)
      [] predicate_id.name = SUBSTANCE_NOT_IN_LIST /\ predicate_id.version = <<"V1">> ->
           IF claim.claim_type # "substance_content"
           THEN ErrResponse(r, "Claim type mismatch for SUBSTANCE_NOT_IN_LIST_V1")
           ELSE IF claim.value.kind # "object"
           THEN Rejected(r, "Substance claim must be object")
           ELSE IF ~claim.value.has_subs
           THEN Rejected(r, "Missing substances list")
           ELSE IF ~input.has_forbidden
           THEN Rejected(r, "Missing forbidden_substances in extra")
           ELSE prove_and_package(r, input, commitment, predicate_id, proof,
                                  "prove_substance_not_in_list", config, tool)
      [] OTHER -> ErrResponse(r, "Predicate not supported by prover yet")

\* generate_proof from the Merkle proof on (lines 764-777 and the dispatch)
build_and_dispatch(r, input, commitment, claim, predicate_id, config, tool) ==
    LET hashed == hash_claims(commitment.claim_ids, <<>>, 0)
        r1 == [r EXCEPT !.hashed = hashed.calls]
    IN  IF hashed.missing THEN ErrResponse(r1, "Claim not found in commitment")
        ELSE IF ~hashed.ok THEN Rejected(r1, hashed.err)
        ELSE LET tree == build(hashed.hashes)
             IN  IF ~tree.ok THEN Rejected(r1, tree.err)
                 ELSE LET proof == prove(tree, input.claim_index)
                          r2 == [r1 EXCEPT !.proved = input.claim_index]
                      IN  IF proof.panic THEN Rejected(r2, "panic")
                          ELSE dispatch(r2, input, commitment, claim,
                                        predicate_id, proof, config, tool)

\* a revocation check that lets every commitment through
is_revoked_never(commitment) == FALSE

\* an expiry check that already fires at the instant valid_until
is_expired_inclusive(commitment) ==
    commitment.valid_until.some /\ now >= commitment.valid_until.t

\* an index check that also refuses the last index
index_out_of_range_last(input, commitment) ==
    input.claim_index + 1 >= Len(commitment.claim_ids)

\* generate_proof: the checks on the commitment, in the order of the code
is_revoked(commitment) == commitment.revoked

is_expired(commitment) ==
    commitment.valid_until.some /\ now > commitment.valid_until.t

index_out_of_range(input, commitment) ==
    input.claim_index >= Len(commitment.claim_ids)

\* the whole command; `config` and `tool` are what the environment answers
generate_proof(input, config, tool) ==
    LET r == [Response("generate_proof") EXCEPT !.req = input,
                                                !.id = input.commitment_id]
    IN  IF ~commitment_found(input.commitment_id)
        THEN ErrResponse(r, "Commitment not found")
        ELSE LET commitment == commitments[input.commitment_id]
             IN  IF is_revoked(commitment)
                 THEN ErrResponse(r, "Commitment has been revoked")
                 ELSE IF is_expired(commitment)
                 THEN ErrResponse(r, "Commitment has expired")
                 ELSE IF index_out_of_range(input, commitment)
                 THEN ErrResponse(r, "Invalid claim index")
                 ELSE LET claim ==
                              get_claim(commitment.claim_ids[input.claim_index + 1])
                          predicate_id == parse_predicate_id(input.predicate_id)
                      IN  IF ~claim.found THEN ErrResponse(r, "Claim not found")
                          ELSE IF ~predicate_id.ok
                          THEN Rejected(r, "Predicate ID must include version")
                          ELSE build_and_dispatch(r, input, commitment, claim.row,
                                                  predicate_id, config, tool)


--------------------------------------------------------------------------
(* Inputs of the commands *)

\* (claim_type, value, unit) of the claims the extraction and the editor give
ClaimContents ==
    { [claim_type |-> "recycled_content", value |-> JNumber(25), unit |-> "percent"],
      [claim_type |-> "certification", value |-> JWindow(1, 5), unit |-> ""],
      [claim_type |-> "water_usage", value |-> JNumber(25), unit |-> "liters"] }

ClaimRow(content, verified) ==
    [claim_type |-> content.claim_type, value |-> content.value,
     unit |-> content.unit, verified |-> verified, updated_at |-> now]

\* claim_ids lists: every list of 1..MaxIds ids, known or not, and the empty one
ClaimIdLists ==
    UNION { [1..n -> 1..MaxClaims] : n \in 0..MaxIds }

\* valid_days: None or a number of days
ValidDays == {None, 0}

PredicateIds ==
    { RECYCLED_CONTENT_GTE \o <<"_", "V1">>,
      CARBON_FOOTPRINT_LTE \o <<"_", "V1">>,
      CERT_VALID \o <<"@", "V1">>,
      SUBSTANCE_NOT_IN_LIST \o <<"_", "V1">>,
      RECYCLED_CONTENT_GTE \o <<"_", "V2">>,
      <<"NOVERSION">> }

GenerateProofInput(c, p, i, th) ==
    [commitment_id |-> c, predicate_id |-> p, claim_index |-> i,
     threshold |-> th, forbidden |-> <<>>, has_forbidden |-> FALSE]

\* every request over the ids, predicate ids, indexes and thresholds above
GenerateProofInputs ==
    { GenerateProofInput(c, p, i, th) :
        c \in 1..(MaxCommitments + 1), p \in PredicateIds, i \in 0..MaxIds,
        th \in {None, 20} }

\* the requests the user interface sends in a run
Requests ==
    { GenerateProofInput(1, RECYCLED_CONTENT_GTE \o <<"_", "V1">>, i, 20) :
        i \in 0..MaxIds }
    \cup { GenerateProofInput(c, RECYCLED_CONTENT_GTE \o <<"_", "V1">>, 0, None) :
             c \in {1, MaxCommitments + 1} }
    \cup { GenerateProofInput(1, p, 0, 20) : p \in PredicateIds }

\* what the environment answers: NoirCliConfig::from_env, the nargo runs
ProverEnvs ==
    { [config |-> "ok", tool |-> "ok"], [config |-> "error", tool |-> "ok"],
      [config |-> "ok", tool |-> "failed"] }

--------------------------------------------------------------------------
(* The commands.  Each takes state.db.lock() first and holds the guard  *)
(* until it returns, so each is one step                                *)

\* the Merkle engine before any tree is built
NoProof == [panic |-> FALSE, leaf |-> <<>>, path |-> <<>>, indices |-> <<>>]

MkIdle ==
    [phase |-> "idle", leaves |-> <<>>, index |-> 0, proof |-> NoProof,
     original |-> NoProof, k |-> 0, verified |-> FALSE, verified_fn |-> FALSE]

\* no prover call in flight, no circuit compiled, no proof file written
Calls == 1..MaxCalls

Circuits == {"recycled_content_gte_v1", "cert_valid_v1"}

NoCall == [pc |-> "idle", circuit |-> "", log |-> <<>>, result |-> ""]

ZkIdle ==
    [lock |-> 0,
     artifact |-> [c \in Circuits |-> FALSE],
     proof_file |-> [c \in Circuits |-> FALSE],
     compiled_by |-> [c \in Circuits |-> <<>>],
     call |-> [r \in Calls |-> NoCall]]

\* no function applied yet
FnIdle == [op |-> "idle"]

Init ==
    /\ claims = <<>>
    /\ claims_made = 0
    /\ commitments = <<>>
    /\ keypairs = <<>>
    /\ now = 0
    /\ resp = Response("none")
    /\ revoke_ok = {}
    /\ mk = MkIdle
    /\ zk = ZkIdle
    /\ fn = FnIdle

\* extract_claims, lines 200-233: a claim the extraction found is stored
extract_claims(content) ==
    /\ claims_made < MaxClaims
    /\ claims_made' = claims_made + 1
    /\ claims' = [i \in DOMAIN claims \cup {claims_made + 1} |->
                    IF i = claims_made + 1 THEN ClaimRow(content, FALSE)
                    ELSE claims[i]]
    /\ resp' = [Response("extract_claims") EXCEPT !.id = claims_made + 1]
    /\ UNCHANGED <<commitments, keypairs, now, revoke_ok, mk, zk, fn>>

update_claim(id, claim) ==
    /\ claims' = update_claim_rows(id, claim)
    /\ resp' = [Response("update_claim") EXCEPT !.id = id,
                                                !.flag = (id \in DOMAIN claims)]
    /\ UNCHANGED <<claims_made, commitments, keypairs, now, revoke_ok, mk, zk, fn>>

delete_claim(id) ==
    /\ claims' = delete_claim_rows(id)
    /\ resp' = [Response("delete_claim") EXCEPT !.id = id,
                                                !.flag = (id \in DOMAIN claims)]
    /\ UNCHANGED <<claims_made, commitments, keypairs, now, revoke_ok, mk, zk, fn>>

verify_claim(id, verified) ==
    /\ IF ~get_claim(id).found
       THEN /\ resp' = ErrResponse([Response("verify_claim") EXCEPT !.id = id],
                                   "Claim not found")
            /\ UNCHANGED claims
       ELSE /\ claims' = update_claim_rows(
                             id, [get_claim(id).row EXCEPT !.verified = verified])
            /\ resp' = [Response("verify_claim") EXCEPT !.id = id, !.flag = TRUE]
    /\ UNCHANGED <<claims_made, commitments, keypairs, now, revoke_ok, mk, zk, fn>>

\* create_commitment, lines 329-351: the keypair that signs, and the table
\* after it (a keypair is generated and inserted when none is active)
signing_key == IF get_active_keypair # 0 THEN get_active_keypair ELSE Len(keypairs) + 1

keypairs_after_selection ==
    IF get_active_keypair # 0 THEN keypairs
    ELSE insert_keypair([public_key |-> Len(keypairs) + 1, is_active |-> TRUE])

\* create_commitment, lines 367-392: the row that is stored
new_commitment(claim_ids, valid_days, tree) ==
    [root |-> to_hex(root(tree)),
     claim_count |-> Len(claim_ids),
     claim_ids |-> claim_ids,
     public_key |-> signing_key,
     signature |-> sign_hex(signing_key, root(tree)),
     valid_from |-> SomeTime(now),
     valid_until |-> IF valid_days = None THEN NoTime ELSE SomeTime(now + valid_days),
     revoked |-> FALSE]

\* a create_commitment without the check of the empty list
create_commitment_unchecked(claim_ids, valid_days) ==
    LET r == Response("create_commitment")
        hashed == hash_claims(claim_ids, <<>>, 0)
        r1 == [r EXCEPT !.hashed = hashed.calls]
    IN  /\ UNCHANGED <<claims, claims_made, now, revoke_ok, mk, zk, fn>>
        /\ keypairs' = keypairs_after_selection
        /\ IF hashed.missing
           THEN /\ resp' = ErrResponse(r1, "Claim not found")
                /\ UNCHANGED commitments
           ELSE IF ~hashed.ok
           THEN /\ resp' = Rejected(r1, hashed.err)
                /\ UNCHANGED commitments
           ELSE IF ~build(hashed.hashes).ok
           THEN /\ resp' = Rejected(r1, build(hashed.hashes).err)
                /\ UNCHANGED commitments
           ELSE /\ Len(commitments) < MaxCommitments
                /\ commitments' =
                       Append(commitments,
                              new_commitment(claim_ids, valid_days,
                                             build(hashed.hashes)))
                /\ resp' = [r1 EXCEPT !.id = Len(commitments) + 1]

create_commitment(claim_ids, valid_days) ==
    LET r == Response("create_commitment")
        hashed == hash_claims(claim_ids, <<>>, 0)
        r1 == [r EXCEPT !.hashed = hashed.calls]
    IN  /\ UNCHANGED <<claims, claims_made, now, revoke_ok, mk, zk, fn>>
        /\ IF Len(claim_ids) = 0
           THEN /\ resp' = ErrResponse(r, "No claims specified")
                /\ UNCHANGED <<commitments, keypairs>>
           ELSE /\ keypairs' = keypairs_after_selection
                /\ IF hashed.missing
                   THEN /\ resp' = ErrResponse(r1, "Claim not found")
                        /\ UNCHANGED commitments
                   ELSE IF ~hashed.ok
                   THEN /\ resp' = Rejected(r1, hashed.err)
                        /\ UNCHANGED commitments
                   ELSE IF ~build(hashed.hashes).ok
                   THEN /\ resp' = Rejected(r1, build(hashed.hashes).err)
                        /\ UNCHANGED commitments
                   ELSE /\ Len(commitments) < MaxCommitments
                        /\ commitments' =
                               Append(commitments,
                                      new_commitment(claim_ids, valid_days,
                                                     build(hashed.hashes)))
                        /\ resp' = [r1 EXCEPT !.id = Len(commitments) + 1]

revoke_commitment(id) ==
    /\ commitments' = revoke_commitment_rows(id)
    /\ revoke_ok' = IF commitment_found(id) THEN revoke_ok \cup {id} ELSE revoke_ok
    /\ resp' = [Response("revoke_commitment") EXCEPT !.id = id,
                                                     !.flag = commitment_found(id)]
    /\ UNCHANGED <<claims, claims_made, keypairs, now, mk, zk, fn>>

\* a generate_proof that marks the commitment it proves from as revoked
GenerateProof_revoking(input, config, tool) ==
    /\ resp' = generate_proof(input, config, tool)
    /\ commitments' = revoke_commitment_rows(input.commitment_id)
    /\ UNCHANGED <<claims, claims_made, keypairs, now, revoke_ok, mk, zk, fn>>

GenerateProof(input, config, tool) ==
    /\ resp' = generate_proof(input, config, tool)
    /\ UNCHANGED <<claims, claims_made, commitments, keypairs, now, revoke_ok, mk, zk, fn>>

generate_new_keypair ==
    /\ Len(keypairs) < MaxKeys
    /\ keypairs' = insert_keypair([public_key |-> Len(keypairs) + 1,
                                   is_active |-> TRUE])
    /\ resp' = [Response("generate_new_keypair") EXCEPT !.id = Len(keypairs) + 1]
    /\ UNCHANGED <<claims, claims_made, commitments, now, revoke_ok, mk, zk, fn>>

\* time passes
Tick ==
    /\ now < MaxTime
    /\ now' = now + 1
    /\ UNCHANGED <<claims, claims_made, commitments, keypairs, resp, revoke_ok, mk, zk, fn>>

Next ==
    \/ \E content \in ClaimContents : extract_claims(content)
    \/ \E id \in 1..MaxClaims, content \in ClaimContents, verified \in BOOLEAN :
           update_claim(id, ClaimRow(content, verified))
    \/ \E id \in 1..MaxClaims : delete_claim(id)
    \/ \E id \in 1..MaxClaims, verified \in BOOLEAN : verify_claim(id, verified)
    \/ \E claim_ids \in ClaimIdLists, valid_days \in ValidDays :
           create_commitment(claim_ids, valid_days)
    \/ \E id \in 1..MaxCommitments : revoke_commitment(id)
    \/ \E input \in Requests, env \in ProverEnvs :
           GenerateProof(input, env.config, env.tool)
    \/ generate_new_keypair
    \/ Tick

Spec == Init /\ [][Next]_vars

--------------------------------------------------------------------------
(* Properties of the commands (Spec).  A property of generate_proof is     *)
(* stated over every request the command can be sent in the current state  *)
(* and every answer of the environment.                                    *)

Outcomes(input) ==
    { generate_proof(input, env.config, env.tool) : env \in ProverEnvs }

Stored(id) == id \in 1..Len(commitments)

Expired(commitment) ==
    commitment.valid_until.some /\ now > commitment.valid_until.t

\* found, unrevoked, unexpired
Valid(id) ==
    Stored(id) /\ ~commitments[id].revoked /\ ~Expired(commitments[id])

InRange(input) ==
    input.claim_index < Len(commitments[input.commitment_id].claim_ids)

\* the stored claims a commitment names, when all of them are still stored
StoredClaims(commitment) ==
    \A j \in 1..Len(commitment.claim_ids) : commitment.claim_ids[j] \in DOMAIN claims

\* C1 as stated: every stored commitment's root is the root of
\* MerkleTree::build over the leaf hashes compute_claim_hash gives for the
\* currently stored claims its claim_ids name, in claim_ids order.
C1_RootMatchesStoredClaims ==
    \A i \in 1..Len(commitments) :
        LET hashed == hash_claims(commitments[i].claim_ids, <<>>, 0)
        IN  /\ hashed.ok
            /\ commitments[i].root = to_hex(root(build(hashed.hashes)))

\* C2: once revoke_commitment(id) has answered success, every generate_proof
\* request for that commitment fails with the revoked error, returns no
\* proof package and calls no prover, whatever commands ran in between.
C2_RevokedNeverProves ==
    \A input \in GenerateProofInputs :
        input.commitment_id \in revoke_ok =>
            \A r \in Outcomes(input) :
                /\ ~r.success
                /\ r.error = "Commitment has been revoked"
                /\ r.prover = ""
                /\ ~r.package.present

\* a request refused for a commitment revoked earlier, after time has passed
C2_Witness ==
    /\ resp.cmd = "generate_proof"
    /\ resp.id \in revoke_ok
    /\ resp.error = "Commitment has been revoked"
    /\ ~resp.package.present
    /\ now > 0

\* C6: generate_proof checks lookup, revocation, expiry (valid_until set and
\* now strictly later) and claim index in that order and answers the error
\* of the first check that fails; in each of these cases no claim hash is
\* recomputed and no prover is called.
C6_CheckOrder ==
    \A input \in GenerateProofInputs : \A r \in Outcomes(input) :
        LET id == input.commitment_id
            expected ==
                IF ~Stored(id) THEN "Commitment not found"
                ELSE IF commitments[id].revoked THEN "Commitment has been revoked"
                ELSE IF Expired(commitments[id]) THEN "Commitment has expired"
                ELSE IF ~InRange(input) THEN "Invalid claim index"
                ELSE ""
            commitment_errors ==
                {"Commitment not found", "Commitment has been revoked",
                 "Commitment has expired", "Invalid claim index"}
        IN  /\ expected # "" =>
                /\ ~r.success /\ ~r.rejected /\ r.error = expected
                /\ r.hashed = 0 /\ r.proved = None /\ r.prover = ""
                /\ ~r.package.present
            /\ expected = "" => r.error \notin commitment_errors

\* a commitment both revoked and expired, asked for an index out of range
C6_Witness ==
    /\ resp.cmd = "generate_proof"
    /\ Stored(resp.id)
    /\ commitments[resp.id].revoked
    /\ Expired(commitments[resp.id])
    /\ ~InRange(resp.req)
    /\ resp.error = "Commitment has been revoked"
    /\ resp.hashed = 0

\* the claim type each supported predicate expects
ExpectedType(name) ==
    CASE name = RECYCLED_CONTENT_GTE -> "recycled_content"
      [] name = CARBON_FOOTPRINT_LTE -> "carbon_footprint"
      [] name = CERT_VALID -> "certification"
      [] name = SUBSTANCE_NOT_IN_LIST -> "substance_content"
      [] OTHER -> ""

Supported(predicate_id) ==
    /\ predicate_id.ok
    /\ predicate_id.version = <<"V1">>
    /\ ExpectedType(predicate_id.name) # ""

\* C7 as stated: a request for a supported predicate that passes the
\* commitment checks and selects a claim of any other type fails with the
\* claim-type-mismatch error, whatever the claim's value and whether or not
\* a threshold was given, and calls no prover.
C7_TypeMismatchReported ==
    \A input \in GenerateProofInputs :
        (/\ Valid(input.commitment_id)
         /\ InRange(input)
         /\ StoredClaims(commitments[input.commitment_id])
         /\ Supported(parse_predicate_id(input.predicate_id))
         /\ claims[commitments[input.commitment_id].claim_ids[input.claim_index + 1]]
                .claim_type
              # ExpectedType(parse_predicate_id(input.predicate_id).name))
        => \A r \in Outcomes(input) :
               /\ ~r.success /\ ~r.rejected
               /\ r.error \in { "Claim type mismatch for RECYCLED_CONTENT_GTE_V1",
                                "Claim type mismatch for CARBON_FOOTPRINT_LTE_V1",
                                "Claim type mismatch for CERT_VALID_V1",
                                "Claim type mismatch for SUBSTANCE_NOT_IN_LIST_V1" }
               /\ r.prover = ""

\* C8 as stated: a request on a valid commitment with an index in range
\* whose predicate parses to a pair outside the four supported ones fails
\* with the not-supported error, calls no prover and returns no package.
C8_UnsupportedPredicateReported ==
    \A input \in GenerateProofInputs :
        (/\ Valid(input.commitment_id)
         /\ InRange(input)
         /\ parse_predicate_id(input.predicate_id).ok
         /\ ~Supported(parse_predicate_id(input.predicate_id)))
        => \A r \in Outcomes(input) :
               /\ ~r.success
               /\ r.error = "Predicate not supported by prover yet"
               /\ r.prover = ""
               /\ ~r.package.present

\* C9 as stated: generate_proof answers the invalid-index error exactly when
\* claim_index >= len(commitment.claim_ids), and MerkleTree::prove is never
\* reached with an index >= leaf_count.
C9_InvalidIndexExactly ==
    \A input \in GenerateProofInputs :
        Stored(input.commitment_id) =>
            \A r \in Outcomes(input) :
                /\ (r.error = "Invalid claim index") = ~InRange(input)
                /\ r.error # "panic"

\* C9 amended: on a found, unrevoked and unexpired commitment generate_proof
\* answers the invalid-index error exactly when claim_index >=
\* len(commitment.claim_ids); on any other commitment the earlier check
\* answers; and MerkleTree::prove is only ever called with an index below
\* the number of leaves.
C9_InvalidIndexOnValidCommitment ==
    \A input \in GenerateProofInputs : \A r \in Outcomes(input) :
        /\ Valid(input.commitment_id) =>
               (r.error = "Invalid claim index") = ~InRange(input)
        /\ ~Valid(input.commitment_id) => r.error # "Invalid claim index"
        /\ r.error # "panic"
        /\ r.proved # None =>
               /\ r.proved = input.claim_index
               /\ r.proved < r.hashed
               /\ r.hashed = Len(commitments[input.commitment_id].claim_ids)

\* the index len(claim_ids) of a two-leaf commitment refused, no tree built
C9_Witness ==
    /\ resp.cmd = "generate_proof"
    /\ Valid(resp.id)
    /\ Len(commitments[resp.id].claim_ids) = 2
    /\ resp.req.claim_index = 2
    /\ resp.error = "Invalid claim index"
    /\ resp.proved = None

\* C10: once a commitment is stored no command changes its root, claim_count,
\* claim_ids, public_key, signature, valid_from or valid_until; rows are
\* never removed; only revoke_commitment changes a row, and revoked never
\* goes from true back to false.
C10_CommitmentFrame ==
    [][\A i \in 1..Len(commitments) :
          /\ i <= Len(commitments')
          /\ commitments'[i].root = commitments[i].root
          /\ commitments'[i].claim_count = commitments[i].claim_count
          /\ commitments'[i].claim_ids = commitments[i].claim_ids
          /\ commitments'[i].public_key = commitments[i].public_key
          /\ commitments'[i].signature = commitments[i].signature
          /\ commitments'[i].valid_from = commitments[i].valid_from
          /\ commitments'[i].valid_until = commitments[i].valid_until
          /\ (commitments[i].revoked => commitments'[i].revoked)
          /\ (commitments'[i] # commitments[i] =>
                 resp'.cmd = "revoke_commitment" /\ resp'.id = i)]_vars

\* a stored commitment, revoked, with its claim deleted and a new key made
C10_Witness ==
    /\ Len(commitments) = 1
    /\ commitments[1].revoked
    /\ commitments[1].valid_until.some
    /\ commitments[1].claim_ids[1] \notin DOMAIN claims
    /\ Len(keypairs) = 2
    /\ now > 0


--------------------------------------------------------------------------
(* The Merkle engine on its own: a tree is built over a leaf list, a proof *)
(* is generated for one index and verified, and one part of the proof is   *)
(* then replaced before it is verified again.                              *)

\* leaf lists given to MerkleTree::build; a leaf is a raw 32-byte value
LeafValues == { <<a>> : a \in 1..NumAtoms }

LeafLists == UNION { [1..n -> LeafValues] : n \in 1..MaxLeaves }

\* every node of the tree
tree_nodes(tree) ==
    UNION { { tree.nodes[l][j] : j \in 1..Len(tree.nodes[l]) } :
              l \in 1..Len(tree.nodes) }

\* 32-byte values a tampered proof may carry: the raw values, one more raw
\* value, and every node of the tree
TamperValues(tree) == LeafValues \cup { <<0>> } \cup tree_nodes(tree)

\* the value verify_merkle_proof holds before it reads path[k] (1-based)
current_before(proof, k) ==
    fold_path(proof.leaf, SubSeq(proof.path, 1, k - 1),
              SubSeq(proof.indices, 1, k - 1))

\* tree.verify(&proof) and verify_merkle_proof(.., &tree.root()) on a proof
Verified(m, leaves, proof) ==
    [m EXCEPT !.proof = proof,
              !.verified = verify(build(leaves), proof),
              !.verified_fn = verify_merkle_proof(proof.leaf, proof.path,
                                                  proof.indices,
                                                  root(build(leaves)))]

MkBuild(leaves) ==
    /\ mk.phase = "idle"
    /\ build(leaves).ok
    /\ mk' = [mk EXCEPT !.phase = "built", !.leaves = leaves]
    /\ UNCHANGED <<app, zk, fn>>

MkProve(index) ==
    /\ mk.phase = "built"
    /\ index < leaf_count(build(mk.leaves))
    /\ LET proof == prove(build(mk.leaves), index)
       IN  mk' = Verified([mk EXCEPT !.phase = "proved", !.index = index,
                                     !.original = proof],
                          mk.leaves, proof)
    /\ UNCHANGED <<app, zk, fn>>

\* proof.leaf = value, as in test_invalid_proof_wrong_leaf
MkTamperLeaf(value) ==
    /\ mk.phase = "proved"
    /\ value # mk.proof.leaf
    /\ mk' = Verified([mk EXCEPT !.phase = "tampered_leaf"], mk.leaves,
                      [mk.proof EXCEPT !.leaf = value])
    /\ UNCHANGED <<app, zk, fn>>

\* proof.path[k] = value, as in test_invalid_proof_wrong_path
MkTamperPath(k, value) ==
    /\ mk.phase = "proved"
    /\ k \in 1..Len(mk.proof.path)
    /\ value # mk.proof.path[k]
    /\ mk' = Verified([mk EXCEPT !.phase = "tampered_path", !.k = k], mk.leaves,
                      [mk.proof EXCEPT !.path[k] = value])
    /\ UNCHANGED <<app, zk, fn>>

\* proof.indices[k] flipped between 0 and 1
MkFlipIndex(k) ==
    /\ mk.phase = "proved"
    /\ k \in 1..Len(mk.proof.indices)
    /\ mk' = Verified([mk EXCEPT !.phase = "flipped", !.k = k], mk.leaves,
                      [mk.proof EXCEPT !.indices[k] = 1 - mk.proof.indices[k]])
    /\ UNCHANGED <<app, zk, fn>>

MerkleNext ==
    \/ \E leaves \in LeafLists : MkBuild(leaves)
    \/ \E index \in 0..(MaxLeaves - 1) : MkProve(index)
    \/ \E value \in TamperValues(build(mk.leaves)) : MkTamperLeaf(value)
    \/ \E k \in 1..MaxLeaves, value \in TamperValues(build(mk.leaves)) :
           MkTamperPath(k, value)
    \/ \E k \in 1..MaxLeaves : MkFlipIndex(k)

MerkleSpec == Init /\ [][MerkleNext]_vars

--------------------------------------------------------------------------
(* Properties of the Merkle engine (MerkleSpec) *)

\* C3: for every tree built from n >= 1 leaves (odd or even, leaves repeated
\* or not) and every index i < n, the proof prove(i) returns is accepted by
\* both MerkleTree::verify and verify_merkle_proof against the tree's root.
C3_ProveVerifyRoundTrip ==
    mk.phase = "proved" => mk.verified /\ mk.verified_fn

\* an odd tree with a repeated leaf, proved at its unpaired last index
C3_Witness ==
    /\ mk.phase = "proved"
    /\ Len(mk.leaves) = 3
    /\ mk.leaves[1] = mk.leaves[3]
    /\ mk.leaves[1] # mk.leaves[2]
    /\ mk.index = 2
    /\ Len(mk.proof.path) = 2
    /\ mk.verified /\ mk.verified_fn

\* C4: with a collision-free hash, a proof whose leaf, or any one entry of
\* whose path, is replaced by a different value is rejected.
C4_TamperedProofRejected ==
    mk.phase \in {"tampered_leaf", "tampered_path"} =>
        ~mk.verified /\ ~mk.verified_fn

\* the second path entry replaced by another node of the same tree
C4_Witness ==
    /\ mk.phase = "tampered_path"
    /\ mk.k = 2
    /\ mk.proof.path[2] \in tree_nodes(build(mk.leaves))
    /\ mk.proof.path[2] # mk.original.path[2]
    /\ ~mk.verified

\* C5 as stated: in a tree of n >= 2 leaves, flipping any one entry of
\* indices makes verification return false.
C5_FlipRejected ==
    (mk.phase = "flipped" /\ Len(mk.leaves) >= 2) => ~mk.verified

\* C5 amended: a proof with indices[k] flipped is rejected exactly when
\* path[k] differs from the value computed up to level k; when the two are
\* equal (a node paired with itself, or with an equal sibling) the flipped
\* proof is still accepted.
C5_FlipRejectedUnlessSiblingEqual ==
    mk.phase = "flipped" =>
        /\ mk.verified = (mk.proof.path[mk.k] = current_before(mk.proof, mk.k))
        /\ mk.verified_fn = mk.verified

\* an index flipped next to a different sibling, and rejected
C5_Witness ==
    /\ mk.phase = "flipped"
    /\ Len(mk.leaves) >= 2
    /\ mk.proof.indices[mk.k] # mk.original.indices[mk.k]
    /\ mk.proof.path[mk.k] # current_before(mk.proof, mk.k)
    /\ ~mk.verified

--------------------------------------------------------------------------
(* zk/mod.rs prove_* under concurrent generate_proof requests.  A request  *)
(* takes the database mutex (commands/mod.rs line 722) and holds it until  *)
(* the command returns; the external steps run inside.  An external step   *)
(* succeeds or fails as the environment decides.                           *)

\* a mutex that is never held
lock_free_always == TRUE

\* state.db.lock(): the mutex can be taken
lock_free == zk.lock = 0

\* a caller that goes on to the next step whatever the step answered
after_step_ignoring(ok, next) == next

\* the `?` after a step: on to the next step, or out with the error
after_step(ok, next) == IF ok THEN next ELSE "failed"

Step(name, ok) == [step |-> name, ok |-> ok]

\* the steps from the start of ensure_compiled to the read of the proof file
ProverSection == {"ensure_compiled", "write", "execute", "prove", "read"}

\* a request arrives for a predicate, i.e. for a circuit directory
Issue(r, circuit) ==
    /\ zk.call[r].pc = "idle"
    /\ zk' = [zk EXCEPT !.call[r] = [NoCall EXCEPT !.pc = "waiting",
                                                    !.circuit = circuit]]
    /\ UNCHANGED <<app, mk, fn>>

Lock(r) ==
    /\ zk.call[r].pc = "waiting"
    /\ lock_free
    /\ zk' = [zk EXCEPT !.lock = r, !.call[r].pc = "checks"]
    /\ UNCHANGED <<app, mk, fn>>

\* generate_proof up to the prove_* call: the commitment checks, the match
\* on the predicate, NoirCliConfig::from_env
Checks(r, pass) ==
    /\ zk.call[r].pc = "checks"
    /\ zk' = [zk EXCEPT !.call[r].pc = after_step(pass, "ensure_compiled")]
    /\ UNCHANGED <<app, mk, fn>>

\* ensure_compiled: nargo compile runs when the artifact is missing, and
\* leaves the artifact when it succeeds
EnsureCompiled(r, ok) ==
    LET c == zk.call[r].circuit
    IN  /\ zk.call[r].pc = "ensure_compiled"
        /\ IF zk.artifact[c]
           THEN zk' = [zk EXCEPT !.call[r].pc = "write"]
           ELSE zk' = [zk EXCEPT
                          !.artifact[c] = ok,
                          !.compiled_by[c] = Append(@, [by |-> r, ok |-> ok]),
                          !.call[r].log = Append(@, Step("compile", ok)),
                          !.call[r].pc = after_step(ok, "write")]
        /\ UNCHANGED <<app, mk, fn>>

\* build_*_prover_toml and fs::write of Prover.toml
Write(r, ok) ==
    /\ zk.call[r].pc = "write"
    /\ zk' = [zk EXCEPT !.call[r].log = Append(@, Step("write", ok)),
                        !.call[r].pc = after_step(ok, "execute")]
    /\ UNCHANGED <<app, mk, fn>>

\* run_nargo(["execute"])
Execute(r, ok) ==
    /\ zk.call[r].pc = "execute"
    /\ zk' = [zk EXCEPT !.call[r].log = Append(@, Step("execute", ok)),
                        !.call[r].pc = after_step(ok, "prove")]
    /\ UNCHANGED <<app, mk, fn>>

\* run_nargo(["prove"]): a run that succeeds may or may not leave the file
\* at the path the caller reads
Prove(r, ok, wrote) ==
    LET c == zk.call[r].circuit
    IN  /\ zk.call[r].pc = "prove"
        /\ zk' = [zk EXCEPT !.proof_file[c] = @ \/ (ok /\ wrote),
                            !.call[r].log = Append(@, Step("prove", ok)),
                            !.call[r].pc = after_step(ok, "read")]
        /\ UNCHANGED <<app, mk, fn>>

\* fs::read of the proof file, then hex::encode
Read(r) ==
    LET c == zk.call[r].circuit
    IN  /\ zk.call[r].pc = "read"
        /\ zk' = [zk EXCEPT
                     !.call[r].log = Append(@, Step("read", zk.proof_file[c])),
                     !.call[r].pc = after_step(zk.proof_file[c], "returned")]
        /\ UNCHANGED <<app, mk, fn>>

\* the command returns: the mutex guard is dropped
Return(r) ==
    /\ zk.call[r].pc \in {"failed", "returned"}
    /\ zk' = [zk EXCEPT
                 !.lock = 0,
                 !.call[r].pc = "done",
                 !.call[r].result =
                     IF zk.call[r].pc = "returned" THEN "proof" ELSE "error"]
    /\ UNCHANGED <<app, mk, fn>>

ProverNext ==
    \/ \E r \in Calls, circuit \in Circuits : Issue(r, circuit)
    \/ \E r \in Calls : Lock(r)
    \/ \E r \in Calls, pass \in BOOLEAN : Checks(r, pass)
    \/ \E r \in Calls, ok \in BOOLEAN : EnsureCompiled(r, ok)
    \/ \E r \in Calls, ok \in BOOLEAN : Write(r, ok)
    \/ \E r \in Calls, ok \in BOOLEAN : Execute(r, ok)
    \/ \E r \in Calls, ok \in BOOLEAN, wrote \in BOOLEAN : Prove(r, ok, wrote)
    \/ \E r \in Calls : Read(r)
    \/ \E r \in Calls : Return(r)

ProverSpec == Init /\ [][ProverNext]_vars

\* at most one request is in the prover section, and it holds the mutex
OneInProverSection ==
    \A r \in Calls :
        zk.call[r].pc \in ProverSection =>
            /\ zk.lock = r
            /\ \A q \in Calls \ {r} : zk.call[q].pc \notin ProverSection

\* C11 as stated: at most one request at a time is between the start of
\* ensure_compiled and the read of the proof file, and a missing artifact is
\* compiled by the first request only.
C11_SerializedCompiledOnce ==
    /\ OneInProverSection
    /\ \A c \in Circuits : Len(zk.compiled_by[c]) <= 1

\* C11 amended: at most one request at a time is in the prover section, so
\* the steps of different requests never interleave; compile runs only
\* while the artifact is missing, a compile that succeeded is never
\* repeated, and a compile that failed is run again by the next request.
C11_SerializedCompiledUntilSuccess ==
    /\ OneInProverSection
    /\ \A c \in Circuits :
          /\ \A i \in 1..Len(zk.compiled_by[c]) :
                 zk.compiled_by[c][i].ok => i = Len(zk.compiled_by[c])
          /\ zk.artifact[c] =
                 (\E i \in 1..Len(zk.compiled_by[c]) : zk.compiled_by[c][i].ok)

\* one request in the middle of its steps while the other waits for the
\* mutex, on a circuit whose first compile failed and second succeeded
C11_Witness ==
    \E r \in Calls, q \in Calls, c \in Circuits :
        /\ zk.call[r].pc = "execute"
        /\ zk.call[r].circuit = c
        /\ zk.call[q].pc = "waiting"
        /\ zk.call[q].circuit = c
        /\ Len(zk.compiled_by[c]) = 2
        /\ ~zk.compiled_by[c][1].ok
        /\ zk.compiled_by[c][2].ok

StepNames == <<"compile", "write", "execute", "prove", "read">>

\* the steps in `log` are consecutive steps of StepNames starting at `from`
InOrderFrom(log, from) ==
    /\ Len(log) <= Len(StepNames) - from + 1
    /\ \A i \in 1..Len(log) : log[i].step = StepNames[from + i - 1]

\* C12: in every prove_* call the steps run in the order compile (only when
\* the artifact is missing), write, execute, prove, read; after a step that
\* failed no later step runs and the call returns an error; the proof is
\* returned only when execute and prove succeeded and the file was read.
C12_StepOrder ==
    [][\A r \in Calls :
          LET old == zk.call[r]
              new == zk'.call[r]
          IN  /\ InOrderFrom(new.log, 1) \/ InOrderFrom(new.log, 2)
              /\ \A i \in 1..(Len(new.log) - 1) : new.log[i].ok
              /\ (\E i \in 1..Len(new.log) : ~new.log[i].ok) =>
                     new.pc \in {"failed", "done"} /\ new.result # "proof"
              /\ new.result = "proof" =>
                     \A name \in {"write", "execute", "prove", "read"} :
                         \E i \in 1..Len(new.log) :
                             new.log[i].step = name /\ new.log[i].ok
              /\ (Len(new.log) > Len(old.log)
                    /\ new.log[Len(new.log)].step = "compile") =>
                     ~zk.artifact[old.circuit]
              /\ (old.pc = "ensure_compiled" /\ new.pc # old.pc
                    /\ ~zk.artifact[old.circuit]) =>
                     Len(new.log) > Len(old.log)]_vars

\* a call that compiled, wrote, executed, proved, read and returned the proof
C12_Witness ==
    \E r \in Calls :
        /\ zk.call[r].pc = "done"
        /\ zk.call[r].result = "proof"
        /\ Len(zk.call[r].log) = 5
        /\ zk.call[r].log[1].step = "compile"

--------------------------------------------------------------------------
(* zk/mod.rs: the witness file.  A TOML array is the sequence of its       *)
(* entries between two bracket tokens, an entry of a nested array between  *)
(* brackets of its own.                                                    *)

LBracket == 0 - 3
RBracket == 0 - 4

\* the depth the circuits are compiled for
CIRCUIT_DEPTH == 8

\* [0u8; 32]
ZERO32 == <<0>>

bytes_to_toml_array(bytes) == <<LBracket>> \o bytes \o <<RBracket>>

RECURSIVE join_toml_arrays(_)
join_toml_arrays(values) ==
    IF Len(values) = 0 THEN <<>>
    ELSE bytes_to_toml_array(values[1]) \o join_toml_arrays(Tail(values))

nested_bytes_to_toml_array(values) ==
    <<LBracket>> \o join_toml_arrays(values) \o <<RBracket>>

u1_array_to_toml(values) == <<LBracket>> \o values \o <<RBracket>>

\* `while padded.len() < depth { padded.push(zero) }`
RECURSIVE pad_loop(_, _, _)
pad_loop(padded, depth, zero) ==
    IF Len(padded) < depth THEN pad_loop(Append(padded, zero), depth, zero)
    ELSE padded

\* a padding without the length check
pad_merkle_path_unchecked(path, depth) ==
    Ok(nested_bytes_to_toml_array(pad_loop(path, depth, ZERO32)))

pad_merkle_path(path, depth) ==
    IF Len(path) > depth THEN Err("Merkle path length exceeds depth")
    ELSE Ok(nested_bytes_to_toml_array(pad_loop(path, depth, ZERO32)))

pad_merkle_indices(indices, depth) ==
    IF Len(indices) > depth THEN Err("Merkle indices length exceeds depth")
    ELSE Ok(u1_array_to_toml(pad_loop(indices, depth, 0)))

\* build_recycled_content_prover_toml: the two lines of the witness file
\* that carry the Merkle proof, or the error of the first padding that fails
build_recycled_content_prover_toml(merkle_path, merkle_indices) ==
    IF ~pad_merkle_path(merkle_path, CIRCUIT_DEPTH).ok
    THEN pad_merkle_path(merkle_path, CIRCUIT_DEPTH)
    ELSE IF ~pad_merkle_indices(merkle_indices, CIRCUIT_DEPTH).ok
    THEN pad_merkle_indices(merkle_indices, CIRCUIT_DEPTH)
    ELSE Ok(pad_merkle_path(merkle_path, CIRCUIT_DEPTH).v
            \o pad_merkle_indices(merkle_indices, CIRCUIT_DEPTH).v)

--------------------------------------------------------------------------
(* commands/mod.rs: the bindings of a proof.  A string is either a text,   *)
(* the sequence of its ASCII characters, or the hex::encode spelling of a  *)
(* 32-byte value, two lower-case digits a byte.                            *)

\* hash_bytes returns [u8; 32]
DIGEST_BYTES == 32

Text(chars) == [encoded |-> FALSE, text |-> chars, hex |-> <<>>, lower |-> FALSE]

HexString(h) == [encoded |-> TRUE, text |-> <<>>, hex |-> h.hex, lower |-> h.lower]

\* str::len
str_len(s) == IF s.encoded THEN 2 * DIGEST_BYTES ELSE Len(s.text)

\* '0'..='9' | 'a'..='f' | 'A'..='F'
is_hex_digit(c) == c \in (48..57) \cup (97..102) \cup (65..70)

to_ascii_lowercase(c) == IF c \in 65..90 THEN c + 32 ELSE c

\* str::to_lowercase
to_lowercase(s) ==
    IF s.encoded THEN [s EXCEPT !.lower = TRUE]
    ELSE [s EXCEPT !.text = [i \in 1..Len(s.text) |-> to_ascii_lowercase(s.text[i])]]

\* str::as_bytes; the digits of an encoded value stand between two quotes
as_bytes(s) == IF s.encoded THEN <<34>> \o s.hex \o <<34>> ELSE s.text

is_hex_32(value) ==
    /\ str_len(value) = 64
    /\ \/ value.encoded
       \/ \A i \in 1..Len(value.text) : is_hex_digit(value.text[i])

\* format!("{}:{}", prefix, value)
hash_binding(prefix, value) ==
    HexString(to_hex(hash_bytes(prefix \o <<58>> \o as_bytes(value))))

\* a normalisation that keeps the case of a hex value
normalize_binding_raw(prefix, value) ==
    IF is_hex_32(value) THEN value ELSE hash_binding(prefix, value)

normalize_binding(prefix, value) ==
    IF is_hex_32(value) THEN to_lowercase(value) ELSE hash_binding(prefix, value)

\* "product" and "requester"
BindingPrefixes ==
    { <<112, 114, 111, 100, 117, 99, 116>>,
      <<114, 101, 113, 117, 101, 115, 116, 101, 114>> }

Repeat(c, n) == [i \in 1..n |-> c]

\* identifiers of 0 to 66 characters: runs of 'a', 'F' or '9' followed by
\* nothing, by 'g', by 'B', by "0b" or by ':'
RawIds ==
    { Repeat(c, n) \o tail :
        c \in {97, 70, 57}, n \in {0, 1, 62, 63, 64},
        tail \in { <<>>, <<103>>, <<66>>, <<48, 98>>, <<58>> } }


--------------------------------------------------------------------------
(* The functions applied on their own (FnSpec): one function is applied to *)
(* one input and the input and the result are kept.                        *)

PathLists == UNION { [1..n -> {<<1>>, <<2>>}] : n \in 0..MaxPathLen }

IndexLists == UNION { [1..n -> {0, 1}] : n \in 0..MaxPathLen }

ApplyPadPath(path) ==
    /\ fn.op = "idle"
    /\ fn' = [op |-> "pad_merkle_path", path |-> path,
              out |-> pad_merkle_path(path, CIRCUIT_DEPTH)]
    /\ UNCHANGED <<app, mk, zk>>

ApplyPadIndices(indices) ==
    /\ fn.op = "idle"
    /\ fn' = [op |-> "pad_merkle_indices", indices |-> indices,
              out |-> pad_merkle_indices(indices, CIRCUIT_DEPTH)]
    /\ UNCHANGED <<app, mk, zk>>

\* a witness file built from a path and an indices list of lengths k and l
ApplyBuildProverToml(k, l) ==
    /\ fn.op = "idle"
    /\ fn' = [op |-> "build_prover_toml",
              path |-> [i \in 1..k |-> <<1>>], indices |-> [i \in 1..l |-> 1],
              out |-> build_recycled_content_prover_toml(
                          [i \in 1..k |-> <<1>>], [i \in 1..l |-> 1])]
    /\ UNCHANGED <<app, mk, zk>>

ApplyNormalizeBinding(prefix, raw) ==
    /\ fn.op = "idle"
    /\ fn' = [op |-> "normalize_binding", prefix |-> prefix, raw |-> Text(raw),
              out |-> normalize_binding(prefix, Text(raw))]
    /\ UNCHANGED <<app, mk, zk>>

\* predicate ids of up to MaxTokens words "V" and separators
PredicateTexts == UNION { [1..n -> {"V", "_", "@"}] : n \in 0..MaxTokens }

ApplyParsePredicateId(canonical) ==
    /\ fn.op = "idle"
    /\ fn' = [op |-> "parse_predicate_id", canonical |-> canonical,
              out |-> parse_predicate_id(canonical)]
    /\ UNCHANGED <<app, mk, zk>>

\* a JSON number with a fractional part, in thousandths
JFloat(n, frac) == [JNumber(n) EXCEPT !.float = TRUE, !.frac = frac]

\* values of a recycled_content claim: integers, floats, strings ("25",
\* "+7", "007", "", "65536", "-1") and an object
RecycledValues ==
    { JNumber(n) : n \in {0 - 2, 0 - 1, 0, 25, U32_MAX, U32_MAX + 1} }
    \cup { JFloat(n, frac) : n \in {0 - 1, 0, 25, U32_MAX + 1}, frac \in {0, 500} }
    \cup { JString(s) : s \in { <<2, 5>>, <<13, 7>>, <<0, 0, 7>>, <<>>,
                                <<6, 5, 5, 3, 6>>, <<12, 1>> } }
    \cup { JWindow(1, 5) }

ApplyComputeClaimHash(value, unit) ==
    /\ fn.op = "idle"
    /\ fn' = [op |-> "compute_claim_hash", value |-> value, unit |-> unit,
              out |-> compute_claim_hash(1,
                          ClaimRow([claim_type |-> "recycled_content",
                                    value |-> value, unit |-> unit], FALSE))]
    /\ UNCHANGED <<app, mk, zk>>

--------------------------------------------------------------------------
(* crates/crypto: PublicKey::verify and verify_hex.  A hex string either   *)
(* decodes to bytes or does not (a character that is no hex digit, an odd  *)
(* length); a call returns Ok(bool), returns an error or panics.           *)

HexOf(bytes) == [hex_ok |-> TRUE, bytes |-> bytes]

BadHex == [hex_ok |-> FALSE, bytes |-> <<>>]

Returned(value) == [kind |-> "ok", value |-> value, err |-> ""]

Failed(err) == [kind |-> "err", value |-> FALSE, err |-> err]

Panicked == [kind |-> "panic", value |-> FALSE, err |-> ""]

\* the 64 bytes the secret key of the public key `key_bytes` signs `message`
\* with
signature_of(key_bytes, message) == Repeat(16 * key_bytes[1] + message, 64)

\* VerifyingKey::from_bytes: 32 bytes 0xff are not a point of the curve
is_point(arr) == arr # Repeat(255, 32)

PublicKey_verify(self, message, signature) ==
    IF ~self.key.hex_ok THEN Failed("Hex")
    \* arr.copy_from_slice(&key_bytes) panics unless the lengths are equal
    ELSE IF Len(self.key.bytes) # 32 THEN Panicked
    ELSE IF ~is_point(self.key.bytes) THEN Failed("KeyParsing")
    ELSE Returned(signature = signature_of(self.key.bytes, message))

PublicKey_verify_hex(self, message, signature_hex) ==
    IF ~signature_hex.hex_ok THEN Failed("Hex")
    ELSE IF Len(signature_hex.bytes) # 64 THEN Failed("InvalidSignature")
    ELSE PublicKey_verify(self, message, signature_hex.bytes)

\* PublicKey values: `key` is a public field of a deserializable struct
PublicKeys ==
    { [key |-> HexOf(Repeat(b, n))] : b \in {1, 2, 255}, n \in {0, 31, 32, 33} }
    \cup { [key |-> BadHex] }

Messages == {1, 2}

Signatures ==
    { signature_of(Repeat(b, 32), m) : b \in {1, 2}, m \in Messages }
    \cup { Repeat(0, 64) }

SignatureHexes ==
    { HexOf(s) : s \in Signatures }
    \cup { HexOf(Repeat(0, n)) : n \in {0, 63, 65} } \cup { BadHex }

ApplyVerify(self, message, signature) ==
    /\ fn.op = "idle"
    /\ fn' = [op |-> "verify", self |-> self, message |-> message,
              signature |-> HexOf(signature),
              out |-> PublicKey_verify(self, message, signature)]
    /\ UNCHANGED <<app, mk, zk>>

ApplyVerifyHex(self, message, signature_hex) ==
    /\ fn.op = "idle"
    /\ fn' = [op |-> "verify_hex", self |-> self, message |-> message,
              signature |-> signature_hex,
              out |-> PublicKey_verify_hex(self, message, signature_hex)]
    /\ UNCHANGED <<app, mk, zk>>

--------------------------------------------------------------------------
(* crates/commitments: canonicalize.  A JSON value is a number, an array   *)
(* or an object; an object keeps its entries in the order they were        *)
(* written (a serde_json map that sorts on insertion gives canonicalize an *)
(* already sorted object).  An entry of an array carries the key 0.        *)

JNum(n) == [kind |-> "num", n |-> n, items |-> <<>>]

JArr(values) ==
    [kind |-> "arr", n |-> 0,
     items |-> [i \in 1..Len(values) |-> [key |-> 0, val |-> values[i]]]]

JObj(entries) == [kind |-> "obj", n |-> 0, items |-> entries]

LBrace == 0 - 5
RBrace == 0 - 6
Colon == 0 - 7
Comma == 0 - 8
Quote == 0 - 9

Without(seq, m) == [i \in 1..(Len(seq) - 1) |-> IF i < m THEN seq[i] ELSE seq[i + 1]]

\* sorted.sort_by(|a, b| a.0.cmp(b.0))
RECURSIVE sort_by_key(_)
sort_by_key(entries) ==
    IF Len(entries) = 0 THEN <<>>
    ELSE LET m == CHOOSE i \in 1..Len(entries) :
                      \A j \in 1..Len(entries) : entries[i].key <= entries[j].key
         IN  <<entries[m]>> \o sort_by_key(Without(entries, m))

\* a canonicalization that sorts the keys of the outermost object only
canonicalize_value_shallow(value) ==
    IF value.kind = "obj" THEN JObj(sort_by_key(value.items)) ELSE value

RECURSIVE canonicalize_value(_)
canonicalize_value(value) ==
    IF value.kind = "obj"
    THEN JObj([i \in 1..Len(value.items) |->
                 [key |-> sort_by_key(value.items)[i].key,
                  val |-> canonicalize_value(sort_by_key(value.items)[i].val)]])
    ELSE IF value.kind = "arr"
    THEN [value EXCEPT !.items =
             [i \in 1..Len(value.items) |->
                 [key |-> 0, val |-> canonicalize_value(value.items[i].val)]]]
    ELSE value

\* serde_json::to_string
RECURSIVE to_string(_)
RECURSIVE entries_to_string(_, _)
entries_to_string(items, is_object) ==
    IF Len(items) = 0 THEN <<>>
    ELSE (IF is_object THEN <<Quote, items[1].key, Quote, Colon>> ELSE <<>>)
         \o to_string(items[1].val)
         \o (IF Len(items) > 1 THEN <<Comma>> ELSE <<>>)
         \o entries_to_string(Tail(items), is_object)

to_string(value) ==
    IF value.kind = "obj"
    THEN <<LBrace>> \o entries_to_string(value.items, TRUE) \o <<RBrace>>
    ELSE IF value.kind = "arr"
    THEN <<LBracket>> \o entries_to_string(value.items, FALSE) \o <<RBracket>>
    ELSE <<value.n>>

canonicalize(value) == to_string(canonicalize_value(value))

\* commitments::hash_claim
hash_canonical(claim) == hash_bytes(canonicalize(claim))

\* arrays of up to two of the values, and objects of up to two entries with
\* the keys 1 and 2 in either order
ArraysOf(values) == { JArr(s) : s \in UNION { [1..n -> values] : n \in 0..2 } }

ObjectsOf(values) ==
    { JObj(<<>>) }
    \cup { JObj(<<[key |-> k, val |-> v]>>) : k \in {1, 2}, v \in values }
    \cup { JObj(<<[key |-> k, val |-> v], [key |-> 3 - k, val |-> w]>>) :
             k \in {1, 2}, v \in values, w \in values }

InnerValues ==
    { JNum(1),
      JObj(<<[key |-> 1, val |-> JNum(1)], [key |-> 2, val |-> JNum(2)]>>),
      JObj(<<[key |-> 2, val |-> JNum(2)], [key |-> 1, val |-> JNum(1)]>>),
      JArr(<<JNum(1), JNum(2)>>), JArr(<<JNum(2), JNum(1)>>) }

JsonValues == InnerValues \cup ArraysOf(InnerValues) \cup ObjectsOf(InnerValues)

ApplyCanonicalize(x, y) ==
    /\ fn.op = "idle"
    /\ fn' = [op |-> "canonicalize", x |-> x, y |-> y,
              out_x |-> canonicalize(x), out_y |-> canonicalize(y),
              hash_x |-> hash_canonical(x), hash_y |-> hash_canonical(y)]
    /\ UNCHANGED <<app, mk, zk>>

\* the decimal digits of n
RECURSIVE to_digits(_)
to_digits(n) == IF n < 10 THEN <<n>> ELSE Append(to_digits(n \div 10), n % 10)

\* `v * scale` of parse_scaled_u32_value leaves the u32 range
mul_overflows(value, scale) ==
    /\ value.kind # "number"
    /\ parse_u32_value(value).ok
    /\ parse_u32_value(value).v * scale > U32_MAX

\* amounts around the largest one whose hundredfold is a u32
CarbonAmounts == {0, 25, U32_MAX \div 100, U32_MAX \div 100 + 1, U32_MAX \div 10}

CarbonClaim(value) ==
    ClaimRow([claim_type |-> "carbon_footprint", value |-> value, unit |-> "kg"],
             FALSE)

\* parse_scaled_u32_value and compute_claim_hash of a carbon_footprint claim
\* in a build with or without overflow checks: with them an overflowing
\* multiplication panics, without them it wraps
ApplyParseScaled(v, as_string, overflow_checks) ==
    LET value == IF as_string THEN JString(to_digits(v)) ELSE JNumber(v)
    IN  /\ fn.op = "idle"
        /\ fn' = [op |-> "parse_scaled_u32_value", v |-> v, as_string |-> as_string,
                  aborted |-> (overflow_checks
                                 /\ mul_overflows(value, CARBON_FOOTPRINT_SCALE)),
                  out |-> parse_scaled_u32_value(value, CARBON_FOOTPRINT_SCALE),
                  hash |-> compute_claim_hash(1, CarbonClaim(value)),
                  hash_of_number |-> compute_claim_hash(1, CarbonClaim(JNumber(v)))]
        /\ UNCHANGED <<app, mk, zk>>

\* leaf counts around the largest tree of CIRCUIT_DEPTH levels
LeafCounts == {1, 2, 3, 2^CIRCUIT_DEPTH, 2^CIRCUIT_DEPTH + 1}

\* create_commitment builds the tree over the hashes of n claims and stores
\* the commitment when build succeeds (lines 353-394); generate_proof then
\* proves index claim_index and pads the path for the circuit
ApplyCommitAndPad(n, last) ==
    LET tree == build([i \in 1..n |-> <<i>>])
        claim_index == IF last THEN n - 1 ELSE 0
        proof == prove(tree, claim_index)
    IN  /\ fn.op = "idle"
        /\ fn' = [op |-> "commit_and_pad", claim_count |-> n,
                  claim_index |-> claim_index,
                  stored |-> tree.ok,
                  path_len |-> Len(proof.path),
                  path_ok |-> pad_merkle_path(proof.path, CIRCUIT_DEPTH).ok,
                  indices_ok |-> pad_merkle_indices(proof.indices, CIRCUIT_DEPTH).ok]
        /\ UNCHANGED <<app, mk, zk>>

FnNext ==
    \/ \E path \in PathLists : ApplyPadPath(path)
    \/ \E indices \in IndexLists : ApplyPadIndices(indices)
    \/ \E k \in 0..MaxPathLen, l \in 0..MaxPathLen : ApplyBuildProverToml(k, l)
    \/ \E prefix \in BindingPrefixes, raw \in RawIds : ApplyNormalizeBinding(prefix, raw)
    \/ \E canonical \in PredicateTexts : ApplyParsePredicateId(canonical)
    \/ \E value \in RecycledValues, unit \in {"percent", ""} : ApplyComputeClaimHash(value, unit)
    \/ \E self \in PublicKeys, message \in Messages, signature \in Signatures :
           ApplyVerify(self, message, signature)
    \/ \E self \in PublicKeys, message \in Messages, signature_hex \in SignatureHexes :
           ApplyVerifyHex(self, message, signature_hex)
    \/ \E x \in JsonValues, y \in JsonValues : ApplyCanonicalize(x, y)
    \/ \E v \in CarbonAmounts, as_string \in BOOLEAN, overflow_checks \in BOOLEAN :
           ApplyParseScaled(v, as_string, overflow_checks)
    \/ \E n \in LeafCounts, last \in BOOLEAN : ApplyCommitAndPad(n, last)

FnSpec == Init /\ [][FnNext]_vars

\* `count` zero entries
Zeros(count, zero) == [i \in 1..count |-> zero]

\* C13: pad_merkle_path and pad_merkle_indices turn a list of k <= 8 entries
\* into the list of exactly 8 entries that starts with the k entries in
\* their order and ends with 8 - k zero entries (the all-zero hash, the
\* index 0); a list of k > 8 entries is an error and no witness is built.
C13_PaddedToDepth ==
    /\ fn.op = "pad_merkle_path" =>
          IF Len(fn.path) <= 8
          THEN /\ fn.out.ok
               /\ fn.out.v = nested_bytes_to_toml_array(
                                 fn.path \o Zeros(8 - Len(fn.path), <<0>>))
          ELSE ~fn.out.ok
    /\ fn.op = "pad_merkle_indices" =>
          IF Len(fn.indices) <= 8
          THEN /\ fn.out.ok
               /\ fn.out.v = u1_array_to_toml(
                                 fn.indices \o Zeros(8 - Len(fn.indices), 0))
          ELSE ~fn.out.ok
    /\ fn.op = "build_prover_toml" =>
          fn.out.ok = (Len(fn.path) <= 8 /\ Len(fn.indices) <= 8)

\* a path of three entries padded with five zero hashes
C13_Witness ==
    /\ fn.op = "pad_merkle_path"
    /\ Len(fn.path) = 3
    /\ fn.out.ok
    /\ fn.out.v = nested_bytes_to_toml_array(
                      fn.path \o <<ZERO32, ZERO32, ZERO32, ZERO32, ZERO32>>)

\* exactly 64 characters, each a digit or a letter a-f of either case
SixtyFourHex(chars) ==
    /\ Len(chars) = 64
    /\ \A i \in 1..64 : chars[i] \in (48..57) \cup (97..102) \cup (65..70)

\* 64 digits 0-9 or lower-case letters a-f
SixtyFourLowerHex(s) ==
    IF s.encoded THEN s.lower /\ str_len(s) = 64
    ELSE /\ Len(s.text) = 64
         /\ \A i \in 1..64 : s.text[i] \in (48..57) \cup (97..102)

\* C14: normalize_binding(prefix, raw) is raw in lower case when raw is
\* exactly 64 hex characters and the hex spelling of H(prefix ":" raw)
\* otherwise; the result is always 64 lower-case hex characters, and
\* normalising the result again returns it unchanged.
C14_NormalizeBinding ==
    fn.op = "normalize_binding" =>
        /\ IF SixtyFourHex(fn.raw.text)
           THEN /\ ~fn.out.encoded
                /\ Len(fn.out.text) = 64
                /\ \A i \in 1..64 :
                      fn.out.text[i] = IF fn.raw.text[i] \in 65..70
                                       THEN fn.raw.text[i] + 32
                                       ELSE fn.raw.text[i]
           ELSE /\ fn.out.encoded
                /\ fn.out.hex = hash_bytes(fn.prefix \o <<58>> \o fn.raw.text)
        /\ SixtyFourLowerHex(fn.out)
        /\ normalize_binding(fn.prefix, fn.out) = fn.out

\* an identifier of 64 hex characters with upper-case letters, lower-cased
C14_Witness ==
    /\ fn.op = "normalize_binding"
    /\ fn.raw.text = Repeat(70, 63) \o <<66>>
    /\ fn.out = Text(Repeat(102, 63) \o <<98>>)

\* an identifier that is not a hex value, hashed under its prefix
C14_WitnessHashed ==
    /\ fn.op = "normalize_binding"
    /\ fn.raw.text = Repeat(97, 63) \o <<103>>
    /\ fn.out.encoded
    /\ normalize_binding(fn.prefix, fn.out) = fn.out

\* C15: parse_predicate_id takes NAME@VERSION apart at the "@" and
\* NAME_VERSION at the last underscore, and in every successful result
\* both the name and the version are non-empty.
C15_ParsedPartsNonEmpty ==
    (fn.op = "parse_predicate_id" /\ fn.out.ok) =>
        /\ fn.out.name # <<>>
        /\ fn.out.version # <<>>
        /\ \/ fn.canonical = fn.out.name \o <<"@">> \o fn.out.version
           \/ /\ fn.canonical = fn.out.name \o <<"_">> \o fn.out.version
              /\ \A i \in 1..Len(fn.out.version) : fn.out.version[i] # "_"

\* the value is written as an integer: a number without a fractional part,
\* or a string of digits after an optional '+'
DenotesInteger(value) ==
    \/ value.kind = "number" /\ value.frac = 0
    \/ /\ value.kind = "string"
       /\ LET body == IF Len(value.s) > 0 /\ value.s[1] = 13
                      THEN Tail(value.s) ELSE value.s
          IN  Len(body) > 0 /\ \A i \in 1..Len(body) : body[i] \in 0..9

DenotedInteger(value) ==
    IF value.kind = "number" THEN value.n
    ELSE digits_value(IF value.s[1] = 13 THEN Tail(value.s) ELSE value.s, 0)

\* C16: compute_claim_hash of a recycled_content claim succeeds only when
\* the value denotes an integer in 0..2^32-1 and then encodes exactly that
\* integer; a negative, fractional or too large value is a parse error and
\* never hashed as another value.
C16_RecycledContentEncodesValue ==
    fn.op = "compute_claim_hash" =>
        IF DenotesInteger(fn.value) /\ DenotedInteger(fn.value) \in 0..U32_MAX
        THEN fn.out.ok =>
                 fn.out.v = hash_claim_value(hash_claim_type("recycled_content"),
                                             DenotedInteger(fn.value),
                                             hash_unit(fn.unit))
        ELSE ~fn.out.ok

\* C17: PublicKey::verify and verify_hex return a value for every PublicKey
\* and every input and never abort: a key that is not valid hex or not 32
\* bytes, or a signature hex that does not decode to 64 bytes, is an error,
\* and a well-formed signature that does not match is Ok(false).
C17_VerifyNeverAborts ==
    fn.op \in {"verify", "verify_hex"} =>
        /\ fn.out.kind # "panic"
        /\ (~fn.self.key.hex_ok \/ Len(fn.self.key.bytes) # 32) =>
               fn.out.kind = "err"
        /\ (fn.op = "verify_hex"
              /\ (~fn.signature.hex_ok \/ Len(fn.signature.bytes) # 64)) =>
               fn.out.kind = "err"
        /\ (/\ fn.self.key.hex_ok /\ Len(fn.self.key.bytes) = 32
            /\ fn.self.key.bytes # Repeat(255, 32)
            /\ fn.signature.hex_ok /\ Len(fn.signature.bytes) = 64
            /\ fn.signature.bytes # signature_of(fn.self.key.bytes, fn.message)) =>
               (fn.out.kind = "ok" /\ ~fn.out.value)

\* x and y are the same JSON value: they differ at most in the order of the
\* keys of objects, at any depth
RECURSIVE SameUpToKeyOrder(_, _)
SameUpToKeyOrder(x, y) ==
    /\ x.kind = y.kind
    /\ x.n = y.n
    /\ Len(x.items) = Len(y.items)
    /\ IF x.kind = "obj"
       THEN \A i \in 1..Len(x.items) : \E j \in 1..Len(y.items) :
                /\ x.items[i].key = y.items[j].key
                /\ SameUpToKeyOrder(x.items[i].val, y.items[j].val)
       ELSE \A i \in 1..Len(x.items) :
                SameUpToKeyOrder(x.items[i].val, y.items[i].val)

\* y is x with two different elements of one array, at any depth, exchanged
RECURSIVE ArrayReordered(_, _)
ArrayReordered(x, y) ==
    /\ x.kind = y.kind
    /\ Len(x.items) = Len(y.items)
    /\ \A i \in 1..Len(x.items) : x.items[i].key = y.items[i].key
    /\ \/ /\ x.kind = "arr"
          /\ \E i, j \in 1..Len(x.items) :
                /\ i < j
                /\ ~SameUpToKeyOrder(x.items[i].val, x.items[j].val)
                /\ y.items = [x.items EXCEPT ![i] = x.items[j], ![j] = x.items[i]]
       \/ \E i \in 1..Len(x.items) :
                /\ ArrayReordered(x.items[i].val, y.items[i].val)
                /\ \A j \in 1..Len(x.items) : j # i => x.items[j] = y.items[j]

\* C18: values that differ only in the order of object keys, at any depth,
\* have the same canonical string and the same claim hash; the order of the
\* elements of an array is kept, so exchanging two different elements of an
\* array gives a different canonical string.
C18_CanonicalKeyOrder ==
    fn.op = "canonicalize" =>
        /\ SameUpToKeyOrder(fn.x, fn.y) =>
               (fn.out_x = fn.out_y /\ fn.hash_x = fn.hash_y)
        /\ ArrayReordered(fn.x, fn.y) => fn.out_x # fn.out_y

\* an object whose inner object is written in the other key order
C18_Witness ==
    /\ fn.op = "canonicalize"
    /\ fn.x = JObj(<<[key |-> 2, val |-> JNum(1)],
                     [key |-> 1, val |-> JObj(<<[key |-> 2, val |-> JNum(2)],
                                                [key |-> 1, val |-> JNum(1)]>>)]>>)
    /\ fn.y = JObj(<<[key |-> 1, val |-> JObj(<<[key |-> 1, val |-> JNum(1)],
                                                [key |-> 2, val |-> JNum(2)]>>)],
                     [key |-> 2, val |-> JNum(1)]>>)
    /\ fn.out_x = fn.out_y
    /\ fn.hash_x = fn.hash_y

\* an array of two arrays and the array with the two exchanged
C18_WitnessArray ==
    /\ fn.op = "canonicalize"
    /\ fn.x = JArr(<<JArr(<<JNum(1), JNum(2)>>), JArr(<<JNum(2), JNum(1)>>)>>)
    /\ fn.y = JArr(<<JArr(<<JNum(2), JNum(1)>>), JArr(<<JNum(1), JNum(2)>>)>>)
    /\ fn.out_x # fn.out_y

\* C19: the proof prove(i) returns for a tree of n >= 1 leaves has a path
\* and an indices list of the same length, the least d with 2^d >= n, every
\* index is 0 or 1, and for n = 1 the path is empty and the root is the
\* leaf.
C19_ProofLengthIsDepth ==
    mk.phase = "proved" =>
        /\ Len(mk.original.path) = Len(mk.original.indices)
        /\ 2^Len(mk.original.path) >= Len(mk.leaves)
        /\ \A d \in 0..(Len(mk.original.path) - 1) : 2^d < Len(mk.leaves)
        /\ \A k \in 1..Len(mk.original.indices) : mk.original.indices[k] \in {0, 1}
        /\ Len(mk.leaves) = 1 =>
              /\ mk.original.path = <<>>
              /\ root(build(mk.leaves)) = mk.leaves[1]

\* a proof of three levels in a tree of five leaves
C19_Witness ==
    /\ mk.phase = "proved"
    /\ Len(mk.leaves) = 5
    /\ mk.index = 4
    /\ Len(mk.original.path) = 3
    /\ mk.original.indices = <<0, 0, 1>>

\* the proof of the only leaf of a tree
C19_WitnessSingle ==
    /\ mk.phase = "proved"
    /\ Len(mk.leaves) = 1
    /\ mk.original.path = <<>>
    /\ root(build(mk.leaves)) = mk.original.leaf

--------------------------------------------------------------------------
(* Commitments over claim lists that may be empty (CommitSpec): the        *)
(* commands that fill the tables a commitment reads, create_commitment,    *)
(* and MerkleTree::build applied to a list of hashes.                      *)

\* lists of up to two hashes, the empty list among them
HashLists == UNION { [1..n -> LeafValues] : n \in 0..2 }

ApplyBuild(claim_hashes) ==
    /\ fn.op = "idle"
    /\ fn' = [op |-> "build", claim_hashes |-> claim_hashes,
              out |-> build(claim_hashes)]
    /\ UNCHANGED <<app, mk, zk>>

CommitNext ==
    \/ \E content \in ClaimContents : extract_claims(content)
    \/ \E claim_ids \in ClaimIdLists, valid_days \in ValidDays :
           create_commitment(claim_ids, valid_days)
    \/ generate_new_keypair
    \/ \E claim_hashes \in HashLists : ApplyBuild(claim_hashes)

CommitSpec == Init /\ [][CommitNext]_vars

\* C20: empty input is rejected without effect: MerkleTree::build of the
\* empty list is the EmptyClaims error and no tree, and create_commitment
\* with an empty claim_ids list answers with an error before it reads or
\* writes storage: no claim is read, no keypair is created and no
\* commitment is stored.
C20_EmptyRejectedWithoutEffect ==
    [][/\ \A valid_days \in ValidDays :
              create_commitment(<<>>, valid_days) =>
                  /\ ~resp'.success
                  /\ resp'.error = "No claims specified"
                  /\ resp'.hashed = 0
                  /\ keypairs' = keypairs
                  /\ commitments' = commitments
                  /\ claims' = claims
       /\ (fn'.op = "build" /\ fn'.claim_hashes = <<>>) =>
              /\ ~fn'.out.ok
              /\ fn'.out.err = "EmptyClaims"
              /\ fn'.out.nodes = <<>>]_vars

\* create_commitment refused an empty list while a claim was stored and no
\* keypair existed yet, and build refused the empty list
C20_Witness ==
    /\ resp.cmd = "create_commitment"
    /\ resp.error = "No claims specified"
    /\ DOMAIN claims # {}
    /\ keypairs = <<>>
    /\ commitments = <<>>
    /\ fn.op = "build"
    /\ fn.claim_hashes = <<>>
    /\ ~fn.out.ok

--------------------------------------------------------------------------
(* crates/zkp-core: PredicateId::canonical and verify_proof.  The name and *)
(* the version of a PredicateId are sequences of words and of the          *)
(* characters "_", "@" and "." (VerifySpec).                               *)

PredicateId(name, version) == [name |-> name, version |-> version]

\* version.replace('.', "_")
replace_dots(version) ==
    [i \in 1..Len(version) |-> IF version[i] = "." THEN "_" ELSE version[i]]

\* format!("{}_{}", self.name, self.version.replace('.', "_"))
canonical(self) == self.name \o <<"_">> \o replace_dots(self.version)

VerifyErr(err, detail) == [ok |-> FALSE, valid |-> FALSE, err |-> err, detail |-> detail]

\* a verification that decodes the proof and the key before it compares the
\* predicate ids
verify_proof_decode_first(package, vkey) ==
    IF ~package.proof.hex_ok THEN VerifyErr("HexDecode", <<>>)
    ELSE IF ~vkey.key.hex_ok THEN VerifyErr("HexDecode", <<>>)
    ELSE IF package.predicate_id # vkey.predicate_id
    THEN VerifyErr("VerificationKeyNotFound", canonical(package.predicate_id))
    ELSE VerifyErr("VerificationFailed", <<>>)

verify_proof(package, vkey) ==
    IF package.predicate_id # vkey.predicate_id
    THEN VerifyErr("VerificationKeyNotFound", canonical(package.predicate_id))
    ELSE IF ~package.proof.hex_ok THEN VerifyErr("HexDecode", <<>>)
    ELSE IF ~vkey.key.hex_ok THEN VerifyErr("HexDecode", <<>>)
    ELSE VerifyErr("VerificationFailed", <<>>)

VerifierIds ==
    { PredicateId(name, version) :
        name \in { <<"CERT", "_", "VALID">>, <<"RECYCLED">> },
        version \in { <<"V1">>, <<"1", ".", "0">> } }

HexStrings == { HexOf(<<>>), HexOf(<<0>>), HexOf(<<1, 2>>), BadHex }

ApplyVerifyProof(package, vkey) ==
    /\ fn.op = "idle"
    /\ fn' = [op |-> "verify_proof", package |-> package, vkey |-> vkey,
              out |-> verify_proof(package, vkey)]
    /\ UNCHANGED <<app, mk, zk>>

\* PredicateId values with a non-empty name and a non-empty version of up to
\* two words or characters each
IdParts == UNION { [1..n -> {"V", "_", "@", "."}] : n \in 1..2 }

\* the edge agent parses the canonical string of a verifier's PredicateId
ApplyCanonicalRoundTrip(name, version) ==
    /\ fn.op = "idle"
    /\ fn' = [op |-> "canonical_round_trip", id |-> PredicateId(name, version),
              canonical |-> canonical(PredicateId(name, version)),
              out |-> parse_predicate_id(canonical(PredicateId(name, version)))]
    /\ UNCHANGED <<app, mk, zk>>

VerifyNext ==
    \/ \E package_id \in VerifierIds, proof \in HexStrings,
          key_id \in VerifierIds, key \in HexStrings :
           ApplyVerifyProof([predicate_id |-> package_id, proof |-> proof],
                            [predicate_id |-> key_id, key |-> key])
    \/ \E name \in IdParts, version \in IdParts :
           ApplyCanonicalRoundTrip(name, version)

VerifySpec == Init /\ [][VerifyNext]_vars

\* C21: verify_proof fails closed: it returns no successful result for any
\* package and key; VerificationKeyNotFound, naming the package's predicate,
\* when the predicate ids differ, whatever the proof and the key are; a hex
\* decoding error when the ids agree and the proof or the key is not valid
\* hex; VerificationFailed in every other case.
C21_VerifyProofFailsClosed ==
    fn.op = "verify_proof" =>
        /\ ~fn.out.ok
        /\ ~fn.out.valid
        /\ fn.out.err =
             IF fn.package.predicate_id.name # fn.vkey.predicate_id.name
                \/ fn.package.predicate_id.version # fn.vkey.predicate_id.version
             THEN "VerificationKeyNotFound"
             ELSE IF ~fn.package.proof.hex_ok \/ ~fn.vkey.key.hex_ok
             THEN "HexDecode"
             ELSE "VerificationFailed"
        /\ fn.out.err = "VerificationKeyNotFound" =>
               fn.out.detail = canonical(fn.package.predicate_id)

\* the ids differ and the proof is not hex: the key is reported missing
C21_Witness ==
    /\ fn.op = "verify_proof"
    /\ fn.package.predicate_id.version # fn.vkey.predicate_id.version
    /\ ~fn.package.proof.hex_ok
    /\ fn.out.err = "VerificationKeyNotFound"

\* ids agree, proof and key decode: the verification fails
C21_WitnessFailed ==
    /\ fn.op = "verify_proof"
    /\ fn.package.predicate_id = fn.vkey.predicate_id
    /\ fn.package.proof.hex_ok /\ fn.vkey.key.hex_ok
    /\ fn.out.err = "VerificationFailed"

--------------------------------------------------------------------------
(* Properties of the commands, continued (Spec) *)

\* C22: for every successful generate_proof, after any sequence of claim and
\* commitment commands, the claim_hash, merkle_path and merkle_indices given
\* to the prover are accepted by verify_merkle_proof against the
\* commitment_root of the same witness, which is the root of the returned
\* package's public inputs.
C22_WitnessMatchesRoot ==
    \A input \in GenerateProofInputs : \A r \in Outcomes(input) :
        (r.success /\ r.package.present) =>
            /\ verify_merkle_proof(r.witness.claim_hash, r.witness.merkle_path,
                                   r.witness.merkle_indices,
                                   r.witness.commitment_root)
            /\ r.package.commitment_root = to_hex(r.witness.commitment_root)

--------------------------------------------------------------------------
(* Properties of the Merkle engine, continued (MerkleSpec) *)

\* C23: with a collision-free hash MerkleTree::build binds the ordered leaf
\* list: no other non-empty leaf list, of the same or of another length,
\* has the root of the list the tree was built from.
C23_BuildIsBinding ==
    mk.phase = "built" =>
        \A other \in LeafLists :
            other # mk.leaves => root(build(other)) # root(build(mk.leaves))

--------------------------------------------------------------------------
(* Properties of the keypairs and of create_commitment (CommitSpec) *)

ActiveKeys(table) == { k \in 1..Len(table) : table[k].is_active }

\* C24: at most one stored keypair is active in every state; after a
\* successful generate_new_keypair the keypair it created is the only active
\* one; create_commitment creates a keypair only when none is active.
C24_OneActiveKeypair ==
    [][/\ Cardinality(ActiveKeys(keypairs')) <= 1
       /\ generate_new_keypair =>
              /\ Len(keypairs') = Len(keypairs) + 1
              /\ ActiveKeys(keypairs') = {Len(keypairs')}
              /\ resp'.id = Len(keypairs')
       /\ (resp'.cmd = "create_commitment" /\ keypairs' # keypairs) =>
              /\ ActiveKeys(keypairs) = {}
              /\ Len(keypairs') = Len(keypairs) + 1
              /\ SubSeq(keypairs', 1, Len(keypairs)) = keypairs]_vars

\* a keypair made by create_commitment, then replaced by generate_new_keypair
C24_Witness ==
    /\ resp.cmd = "generate_new_keypair"
    /\ Len(keypairs) = 2
    /\ ~keypairs[1].is_active
    /\ keypairs[2].is_active
    /\ Len(commitments) = 1
    /\ commitments[1].public_key = 1

\* C25: every stored commitment carries the public key of the keypair that
\* was active, or was created, in the create_commitment call that stored
\* it, and its signature verifies under that public key over the raw bytes
\* of its root; this stays true of every stored commitment after later
\* generate_new_keypair rotations.
C25_SignedByActiveKey ==
    [][/\ \A i \in 1..Len(commitments') :
              /\ \E k \in 1..Len(keypairs') :
                     keypairs'[k].public_key = commitments'[i].public_key
              /\ verify_hex(commitments'[i].public_key,
                            hex_to_bytes32(commitments'[i].root),
                            commitments'[i].signature)
       /\ Len(commitments') > Len(commitments) =>
              \E k \in ActiveKeys(keypairs') :
                  /\ keypairs'[k].public_key =
                         commitments'[Len(commitments')].public_key
                  /\ ActiveKeys(keypairs) # {} => k \in ActiveKeys(keypairs)]_vars

\* a commitment signed by the first keypair, still verifying after a rotation
C25_Witness ==
    /\ Len(commitments) = 1
    /\ Len(keypairs) = 2
    /\ ActiveKeys(keypairs) = {2}
    /\ commitments[1].public_key = keypairs[1].public_key
    /\ verify_hex(keypairs[1].public_key, hex_to_bytes32(commitments[1].root),
                  commitments[1].signature)
    /\ ~verify_hex(keypairs[2].public_key, hex_to_bytes32(commitments[1].root),
                   commitments[1].signature)

\* C26: a create_commitment call that returns an error (a named claim is
\* missing, a claim value cannot be encoded, the tree cannot be built)
\* leaves the stored state as it was: no commitment is stored and the
\* stored keypairs and their active flags are unchanged.
C26_FailedCreateChangesNothing ==
    [][(resp'.cmd = "create_commitment" /\ ~resp'.success) =>
           /\ commitments' = commitments
           /\ keypairs' = keypairs
           /\ claims' = claims]_vars

\* C27: for a carbon_footprint claim whose value is a non-negative integer
\* v, as a JSON number or as a numeric string, the encoded integer is
\* exactly 100*v when 100*v <= 2^32-1 and the encoding is an error when
\* 100*v > 2^32-1; it never wraps and never aborts, and both forms of the
\* same v give the same leaf hash.
C27_ScaledExactOrError ==
    fn.op = "parse_scaled_u32_value" =>
        /\ ~fn.aborted
        /\ IF 100 * fn.v <= U32_MAX
           THEN fn.out.ok /\ fn.out.v = 100 * fn.v
           ELSE ~fn.out.ok
        /\ fn.hash = fn.hash_of_number

--------------------------------------------------------------------------
(* Properties of the commands, continued (Spec) *)

C29_StoredCommitmentFitsDepth ==
    (fn.op = "commit_and_pad" /\ fn.stored) =>
        /\ fn.path_len <= 8
        /\ fn.path_ok
        /\ fn.indices_ok

\* C30: predicate ids round-trip between the verifier crate and the edge
\* agent: for every PredicateId with a non-empty name and a non-empty
\* version, parse_predicate_id of PredicateId::canonical(id) succeeds and
\* returns the same name and the same version.
C30_CanonicalRoundTrip ==
    fn.op = "canonical_round_trip" =>
        /\ fn.out.ok
        /\ fn.out.name = fn.id.name
        /\ fn.out.version = fn.id.version


====
